---- MODULE Spec2Model ----
(***************************************************************************)
(* A model of the Gloo process group (ProcessGroupGloo.cpp): the tag       *)
(* allocator, the work queue, the worker threads, the barrier, the         *)
(* destructor, the dispatch entry points, the send/recv handles, and the   *)
(* allgather and sparse allreduce algorithms.                              *)
(***************************************************************************)
EXTENDS Integers, Sequences, FiniteSets, TLC

\* ------------------------------------------------------------------------
\* Bounds of the model
\* ------------------------------------------------------------------------

\* The number of work items the callers dispatch in one behaviour.
MaxOps == 3

\* Options.threads ranges over 1..MaxWorkers.
MaxWorkers == 3

\* The caller threads that submit work concurrently are 1..ncallers, with
\* ncallers in 1..MaxCallers.
MaxCallers == 2

\* The behaviours that include the destructor have 1..MaxDtorWorkers workers.
MaxDtorWorkers == 2

\* nextTag() returns uint32_t, so the counter wraps at 2^32. The model keeps the
\* wrap and scales the width down, so that a behaviour of MaxOps dispatches
\* reaches it.
TagModulus == 2

VARIABLES
    ncallers,           \* the number of caller threads
    threads,            \* Options.threads, the size of the worker pool
    collectiveCounter,  \* ProcessGroupGloo::collectiveCounter_
    work,               \* the AsyncWork objects, by identity
    workQueue,          \* ProcessGroupGloo::workQueue_
    workInProgress,     \* ProcessGroupGloo::workInProgress_
    stop,               \* ProcessGroupGloo::stop_
    wpc,                \* where each worker thread is in runLoop
    cpc,                \* where each caller thread is in its dispatch call
    dpc,                \* where the destructor is
    enqOrder,           \* history: the items in the order they were pushed
    deqOrder,           \* history: the items in the order they were popped
    dtorEnq             \* history: how many items were pushed when ~ProcessGroupGloo began

poolVars == <<ncallers, threads, collectiveCounter, work, workQueue, workInProgress, stop,
              wpc, cpc, dpc, enqOrder, deqOrder, dtorEnq>>

\* The dispatch entry points.
VARIABLES
    useCuda,            \* whether the build defines USE_CUDA
    rank,               \* ProcessGroup::rank_
    call                \* history: the last dispatch call and how it ended

dispatchVars == <<useCuda, rank, call>>

\* The send and recv handles.
VARIABLES
    handles,            \* the SendWork and RecvWork objects, by identity
    waits,              \* history: the number of wait() calls made
    lastWait,           \* history: the last wait() call and how it ended
    transport,          \* history: the unbound buffers created and the transfers started
    lastP2P             \* history: the last send, recv or recvAnysource call

p2pVars == <<handles, waits, lastWait, transport, lastP2P>>

\* AsyncAllgatherWork on every rank of the group.
VARIABLES
    agInputs,           \* inputs of each rank
    agOutputs           \* outputs of each rank, <<>> until the rank's run() is over

allgatherVars == <<agInputs, agOutputs>>

\* AsyncSparseAllreduceWork on every rank of the group.
VARIABLES
    spSubmitted,        \* history: the tensors each rank's caller passed in
    spTensors,          \* the tensors of each rank's caller, as they are now
    spWork              \* each rank's work item: status and outputs

sparseVars == <<spSubmitted, spTensors, spWork>>

\* The work items of the dense collectives (broadcast, allreduce, coalesced
\* allreduce, gather) on every rank of the group.
VARIABLES
    dcOpts,             \* the options of the call: rootRank, rootTensor, reduceOp
    dcSubmitted,        \* history: the tensors each rank's caller passed in
    dcInputs,           \* inputs of each rank, as they are now
    dcOutputs,          \* outputs of each rank, as they are now
    dcWork              \* each rank's work item: status and failure

denseVars == <<dcOpts, dcSubmitted, dcInputs, dcOutputs, dcWork>>

\* A work item of an accelerator variant, the streams and the events.
VARIABLES
    cuWork,             \* the work item: its class, where it is, its tensors' devices
    cuCurrent,          \* the caller's current stream of each device
    cuStreams,          \* the operations enqueued on each stream, in order
    cuEvents            \* what each event of the work item captured when last recorded

cudaVars == <<cuWork, cuCurrent, cuStreams, cuEvents>>

\* Two processes of one group that run the same program.
VARIABLES
    smProgram,          \* the dispatch calls of the program, in order
    smContexts,         \* the number of contexts of each process, contexts_.size()
    smPos,              \* how many calls of the program each rank has made
    smCounter,          \* collectiveCounter_ of each rank
    smLog               \* the tag and the context index of each rank's submissions

spmdVars == <<smProgram, smContexts, smPos, smCounter, smLog>>

\* An allreduce or reduce of one scalar type and one reduce op.
VARIABLES
    rfWork              \* the call, its work item and what wait() on it raised

typedVars == <<rfWork>>

\* One send or recv handle and the threads that call wait() on it.
VARIABLES
    hwHandle,           \* completed_, exception_ and srcRank_ of the handle
    hwMutex,            \* the thread that holds the handle's mutex_, 0 when free
    hwPc,               \* where each thread is in wait(), and its calls so far
    hwHist              \* history: the writes of completed_

waitVars == <<hwHandle, hwMutex, hwPc, hwHist>>

\* The sparse tensor every rank passes to one sparse allreduce, by its shape,
\* and how the size check of each rank ended; in RecordSpec, one sparse tensor
\* and the metadata record made of it.
VARIABLES
    shTensor, shWork
shapeVars == <<shTensor, shWork>>

\* The quantized conv2d kernel: the sizes one call is made with, and how the
\* call went.
VARIABLES
    qcInput, qcCall
convVars == <<qcInput, qcCall>>

vars == <<poolVars, dispatchVars, p2pVars, allgatherVars, sparseVars, denseVars, cudaVars,
          spmdVars, typedVars, waitVars, shapeVars, convVars>>

\* ------------------------------------------------------------------------
\* Helpers
\* ------------------------------------------------------------------------

Ids == 1..MaxOps

Workers == 1..threads

Callers == 1..ncallers

Range(s) == {s[i] : i \in 1..Len(s)}

\* The position of x in the sequence s, 0 when it is not in it.
IndexOf(s, x) == IF x \in Range(s) THEN CHOOSE i \in 1..Len(s) : s[i] = x ELSE 0

\* A work object that does not exist (yet).
NoWork == [kind |-> "none", tag |-> -1, alloc |-> 0, prior |-> <<>>, before |-> 0,
           pos |-> 0,
           status |-> "none", failed |-> FALSE, issued |-> FALSE, held |-> FALSE]

\* How many tags nextTag() has handed out.
AllocCount == Cardinality({i \in Ids : work[i].tag # -1})

\* The next free object identity.
NextId == Cardinality({i \in Ids : work[i].kind # "none"}) + 1

\* ------------------------------------------------------------------------
\* The tag allocator
\* ------------------------------------------------------------------------

nextTagStuck(c) == [tag |-> c, counter |-> c]

\* uint32_t nextTag() { return collectiveCounter_++; }
nextTag(c) == [tag |-> c, counter |-> (c + 1) % TagModulus]

\* A call of nextTag(). The counter is declared outside this file; its
\* post-increment is atomic, so the call is one step.
AllocateTag == nextTag(collectiveCounter)

\* ------------------------------------------------------------------------
\* Object lifetime: who holds a shared_ptr to a work item
\* ------------------------------------------------------------------------

\* weak_ptr::lock() if the queue and the slots held no strong reference.
AliveByHandleOnly(i) ==
    \/ work[i].held
    \/ \E c \in Callers : cpc[c].id = i

\* A work item is alive while a shared_ptr to it exists: the caller's handle, the
\* dispatch call's local, the queue or a slot of workInProgress_.
Alive(i) ==
    \/ work[i].held
    \/ \E c \in Callers : cpc[c].id = i
    \/ i \in Range(workQueue)
    \/ \E w \in Workers : workInProgress[w] = i

Completed(i) == work[i].status = "completed"

\* ------------------------------------------------------------------------
\* Init
\* ------------------------------------------------------------------------

IdleCaller == [pc |-> "idle", id |-> 0]

\* No dispatch call has been made.
NoCall == [op |-> "none", error |-> "none", thrown |-> "none", sparse |-> FALSE,
           reduceOp |-> "SUM", counterBefore |-> 0, queueBefore |-> <<>>,
           slotsBefore |-> <<>>]

\* No wait() call has been made.
NoWait == [handle |-> 0, failed |-> FALSE, raised |-> 0, before |-> 0]

\* The parts of the state that a behaviour does not exercise stay as they are
\* here.
DispatchIdle == useCuda = FALSE /\ rank = 0 /\ call = NoCall

\* No send, recv or recvAnysource call has been made.
NoP2P == [op |-> "none", tag |-> 0, thrown |-> "none", utag |-> 0 - 1,
          buffersBefore |-> 0, startedBefore |-> 0]

NoTransport == [buffers |-> 0, started |-> 0]

P2PIdle ==
    /\ handles = <<>>
    /\ waits = 0
    /\ lastWait = NoWait
    /\ transport = NoTransport
    /\ lastP2P = NoP2P

AllgatherIdle == agInputs = <<>> /\ agOutputs = <<>>

SparseIdle == spSubmitted = <<>> /\ spTensors = <<>> /\ spWork = <<>>

NoOpts == [rootRank |-> 0, rootTensor |-> 0, reduceOp |-> "SUM"]

DenseIdle ==
    /\ dcOpts = NoOpts
    /\ dcSubmitted = <<>>
    /\ dcInputs = <<>>
    /\ dcOutputs = <<>>
    /\ dcWork = <<>>

CudaIdle == cuWork = <<>> /\ cuCurrent = <<>> /\ cuStreams = <<>> /\ cuEvents = <<>>

SpmdIdle ==
    /\ smProgram = <<>>
    /\ smContexts = 1
    /\ smPos = <<>>
    /\ smCounter = <<>>
    /\ smLog = <<>>

TypedIdle == rfWork = <<>>

WaitIdle == hwHandle = <<>> /\ hwMutex = 0 /\ hwPc = <<>> /\ hwHist = <<>>

ShapeIdle == shTensor = <<>> /\ shWork = <<>>

ConvIdle == qcInput = <<>> /\ qcCall = <<>>

PoolInit ==
    /\ ncallers \in 1..MaxCallers
    /\ threads \in 1..MaxWorkers
    /\ collectiveCounter = 0
    /\ work = [i \in Ids |-> NoWork]
    /\ workQueue = <<>>
    /\ workInProgress = [w \in 1..threads |-> 0]
    /\ stop = FALSE
    /\ wpc = [w \in 1..threads |-> "loop"]
    /\ cpc = [c \in 1..ncallers |-> IdleCaller]
    /\ dpc = "none"
    /\ enqOrder = <<>>
    /\ deqOrder = <<>>
    /\ dtorEnq = 0

\* ------------------------------------------------------------------------
\* Dispatch: a collective with valid arguments, and barrier()
\* ------------------------------------------------------------------------

\* A dispatch call begins while the group has not begun to be destroyed; a call
\* that has begun goes on while the destructor runs.
CanCall(c) == cpc[c].pc = "idle" /\ dpc = "none" /\ NextId <= MaxOps

\* A collective entry point whose validation passed: tag = nextTag(), the work
\* object is constructed. enqueue(work) follows.
DispatchCollective(c) ==
    /\ CanCall(c)
    /\ LET t == AllocateTag
           i == NextId
       IN /\ collectiveCounter' = t.counter
          /\ work' = [work EXCEPT ![i] = [NoWork EXCEPT !.kind = "collective",
                         !.tag = t.tag, !.alloc = AllocCount + 1,
                         !.status = "created"]]
          /\ cpc' = [cpc EXCEPT ![c] = [pc |-> "enqueue", id |-> i]]
    /\ UNCHANGED <<dispatchVars, p2pVars, allgatherVars, sparseVars, denseVars, cudaVars,
                   spmdVars, typedVars, waitVars, shapeVars, convVars>>
    /\ UNCHANGED <<ncallers, threads, workQueue, workInProgress, stop, wpc, dpc, enqOrder,
                   deqOrder, dtorEnq>>

SnapshotQueueOnly(slots, queue) == queue

\* barrier(): priorWork = workInProgress_ followed by workQueue_, as weak_ptr.
Snapshot(slots, queue) == [k \in 1..Len(slots) |-> slots[k]] \o queue

\* barrier(), the block under workMutex_.
BarrierSnapshot(c) ==
    /\ CanCall(c)
    /\ LET i == NextId
       IN /\ work' = [work EXCEPT ![i] = [NoWork EXCEPT !.kind = "barrier",
                         !.status = "created", !.pos = 1, !.before = Len(enqOrder),
                         !.prior = Snapshot([w \in 1..threads |-> workInProgress[w]],
                                            workQueue)]]
          /\ cpc' = [cpc EXCEPT ![c] = [pc |-> "tag", id |-> i]]
    /\ UNCHANGED <<dispatchVars, p2pVars, allgatherVars, sparseVars, denseVars, cudaVars,
                   spmdVars, typedVars, waitVars, shapeVars, convVars>>
    /\ UNCHANGED <<ncallers, threads, collectiveCounter, workQueue, workInProgress, stop, wpc,
                   dpc, enqOrder, deqOrder, dtorEnq>>

\* barrier(): tag = nextTag(), the AsyncBarrierWork is constructed.
BarrierTag(c) ==
    /\ cpc[c].pc = "tag"
    /\ LET t == AllocateTag
           i == cpc[c].id
       IN /\ collectiveCounter' = t.counter
          /\ work' = [work EXCEPT ![i].tag = t.tag, ![i].alloc = AllocCount + 1]
          /\ cpc' = [cpc EXCEPT ![c].pc = "enqueue"]
    /\ UNCHANGED <<dispatchVars, p2pVars, allgatherVars, sparseVars, denseVars, cudaVars,
                   spmdVars, typedVars, waitVars, shapeVars, convVars>>
    /\ UNCHANGED <<ncallers, threads, workQueue, workInProgress, stop, wpc, dpc, enqOrder,
                   deqOrder, dtorEnq>>

\* enqueue(): push_back under workMutex_.
Enqueue(c) ==
    /\ cpc[c].pc = "enqueue"
    /\ LET i == cpc[c].id
       IN /\ workQueue' = Append(workQueue, i)
          /\ enqOrder' = Append(enqOrder, i)
          /\ work' = [work EXCEPT ![i].status = "queued"]
    /\ cpc' = [cpc EXCEPT ![c].pc = "notify"]
    /\ UNCHANGED <<dispatchVars, p2pVars, allgatherVars, sparseVars, denseVars, cudaVars,
                   spmdVars, typedVars, waitVars, shapeVars, convVars>>
    /\ UNCHANGED <<ncallers, threads, collectiveCounter, workInProgress, stop, wpc, dpc,
                   deqOrder, dtorEnq>>

\* notify_one() that wakes nobody although a worker waits.
NotifyProducedWakesNobody(c) ==
    /\ cpc[c].pc = "notify"
    /\ wpc' = wpc
    /\ work' = [work EXCEPT ![cpc[c].id].held = TRUE]
    /\ cpc' = [cpc EXCEPT ![c] = IdleCaller]
    /\ UNCHANGED <<dispatchVars, p2pVars, allgatherVars, sparseVars, denseVars, cudaVars,
                   spmdVars, typedVars, waitVars, shapeVars, convVars>>
    /\ UNCHANGED <<ncallers, threads, collectiveCounter, workQueue, workInProgress, stop, dpc,
                   enqOrder, deqOrder, dtorEnq>>

\* enqueue(): workProduceCV_.notify_one() after the unlock; the call returns the
\* handle to the caller. With no waiting worker the notification has no effect.
NotifyProduced(c) ==
    /\ cpc[c].pc = "notify"
    /\ \/ /\ \E w \in Workers :
                /\ wpc[w] = "waiting"
                /\ wpc' = [wpc EXCEPT ![w] = "loop"]
       \/ /\ \A w \in Workers : wpc[w] # "waiting"
          /\ wpc' = wpc
    /\ work' = [work EXCEPT ![cpc[c].id].held = TRUE]
    /\ cpc' = [cpc EXCEPT ![c] = IdleCaller]
    /\ UNCHANGED <<dispatchVars, p2pVars, allgatherVars, sparseVars, denseVars, cudaVars,
                   spmdVars, typedVars, waitVars, shapeVars, convVars>>
    /\ UNCHANGED <<ncallers, threads, collectiveCounter, workQueue, workInProgress, stop, dpc,
                   enqOrder, deqOrder, dtorEnq>>

\* A barrier that has not yet got past its weak_ptr to item i.
Watched(i) ==
    \E b \in Ids :
        /\ work[b].kind = "barrier"
        /\ ~Completed(b)
        /\ \E k \in work[b].pos..Len(work[b].prior) : work[b].prior[k] = i

\* The caller lets go of the handle a dispatch call returned. The step is taken
\* when the handle is the last reference, which is when it destroys the object,
\* and a barrier still holds a weak_ptr to it; letting go at another time differs
\* in nothing a thread can observe.
DropHandle(i) ==
    /\ work[i].held
    /\ Completed(i)
    /\ \A w \in Workers : workInProgress[w] # i
    /\ Watched(i)
    /\ work' = [work EXCEPT ![i].held = FALSE]
    /\ UNCHANGED <<dispatchVars, p2pVars, allgatherVars, sparseVars, denseVars, cudaVars,
                   spmdVars, typedVars, waitVars, shapeVars, convVars>>
    /\ UNCHANGED <<ncallers, threads, collectiveCounter, workQueue, workInProgress, stop, wpc,
                   cpc, dpc, enqOrder, deqOrder, dtorEnq>>

\* ------------------------------------------------------------------------
\* AsyncWork::execute and Work::wait
\* ------------------------------------------------------------------------

\* execute(work): run() on the worker thread, a thrown failure is captured into
\* the item, then completed is set and the waiters are notified.
Finish(item, ok) == [item EXCEPT !.status = "completed", !.failed = ~ok]

\* wait() blocks until the item is completed.
WaitUnblocked(item) == item.status = "completed"

\* wait() that returns without re-raising.
WaitRaisesNever(item) == FALSE

\* wait() re-raises the captured failure.
WaitRaises(item) == item.failed

\* ------------------------------------------------------------------------
\* The worker threads: runLoop
\* ------------------------------------------------------------------------

LoopPassNoSlot(w, slots) ==
    IF stop
    THEN /\ wpc' = [wpc EXCEPT ![w] = "exited"]
         /\ workInProgress' = slots
         /\ UNCHANGED <<workQueue, work, deqOrder>>
    ELSE IF workQueue = <<>>
    THEN /\ wpc' = [wpc EXCEPT ![w] = "waiting"]
         /\ workInProgress' = slots
         /\ UNCHANGED <<workQueue, work, deqOrder>>
    ELSE /\ wpc' = [wpc EXCEPT ![w] = "notify"]
         /\ workInProgress' = slots
         /\ workQueue' = Tail(workQueue)
         /\ deqOrder' = Append(deqOrder, Head(workQueue))
         /\ work' = [work EXCEPT ![Head(workQueue)].status = "dequeued"]

\* A pass that copies the front of the queue into the slot and leaves it in the
\* queue.
LoopPassNoPop(w, slots) ==
    IF stop
    THEN /\ wpc' = [wpc EXCEPT ![w] = "exited"]
         /\ workInProgress' = slots
         /\ UNCHANGED <<workQueue, work, deqOrder>>
    ELSE IF workQueue = <<>>
    THEN /\ wpc' = [wpc EXCEPT ![w] = "waiting"]
         /\ workInProgress' = slots
         /\ UNCHANGED <<workQueue, work, deqOrder>>
    ELSE /\ wpc' = [wpc EXCEPT ![w] = "notify"]
         /\ workInProgress' = [slots EXCEPT ![w] = Head(workQueue)]
         /\ workQueue' = workQueue
         /\ deqOrder' = Append(deqOrder, Head(workQueue))
         /\ work' = [work EXCEPT ![Head(workQueue)].status = "dequeued"]

\* One pass of the loop of runLoop with workMutex_ held, the slots being `slots`:
\* leave when stop_ is set, wait on workProduceCV_ when the queue is empty, else
\* pop the front into the worker's slot and unlock.
LoopPass(w, slots) ==
    IF stop
    THEN /\ wpc' = [wpc EXCEPT ![w] = "exited"]
         /\ workInProgress' = slots
         /\ UNCHANGED <<workQueue, work, deqOrder>>
    ELSE IF workQueue = <<>>
    THEN /\ wpc' = [wpc EXCEPT ![w] = "waiting"]
         /\ workInProgress' = slots
         /\ UNCHANGED <<workQueue, work, deqOrder>>
    ELSE /\ wpc' = [wpc EXCEPT ![w] = "notify"]
         /\ workInProgress' = [slots EXCEPT ![w] = Head(workQueue)]
         /\ workQueue' = Tail(workQueue)
         /\ deqOrder' = Append(deqOrder, Head(workQueue))
         /\ work' = [work EXCEPT ![Head(workQueue)].status = "dequeued"]

\* A worker at the top of the loop: just started, or woken from workProduceCV_.
WorkerLoop(w) ==
    /\ wpc[w] = "loop"
    /\ LoopPass(w, workInProgress)
    /\ UNCHANGED <<dispatchVars, p2pVars, allgatherVars, sparseVars, denseVars, cudaVars,
                   spmdVars, typedVars, waitVars, shapeVars, convVars>>
    /\ UNCHANGED <<ncallers, threads, collectiveCounter, stop, cpc, dpc, enqOrder, dtorEnq>>

\* A condition variable may wake a waiter that nobody notified. With an empty
\* queue the woken worker waits again at once, so the step is taken when the
\* queue holds work.
SpuriousWakeup(w) ==
    /\ wpc[w] = "waiting"
    /\ workQueue # <<>>
    /\ wpc' = [wpc EXCEPT ![w] = "loop"]
    /\ UNCHANGED <<dispatchVars, p2pVars, allgatherVars, sparseVars, denseVars, cudaVars,
                   spmdVars, typedVars, waitVars, shapeVars, convVars>>
    /\ UNCHANGED <<ncallers, threads, collectiveCounter, work, workQueue, workInProgress, stop,
                   cpc, dpc, enqOrder, deqOrder, dtorEnq>>

\* workConsumeCV_.notify_one() after the pop: wakes the destructor if it waits.
NotifyConsumed(w) ==
    /\ wpc[w] = "notify"
    /\ wpc' = [wpc EXCEPT ![w] = "run"]
    /\ dpc' = IF dpc = "waiting" THEN "check" ELSE dpc
    /\ UNCHANGED <<dispatchVars, p2pVars, allgatherVars, sparseVars, denseVars, cudaVars,
                   spmdVars, typedVars, waitVars, shapeVars, convVars>>
    /\ UNCHANGED <<ncallers, threads, collectiveCounter, work, workQueue, workInProgress, stop,
                   cpc, enqOrder, deqOrder, dtorEnq>>

\* execute() of a collective: the transport call returns or fails.
RunCollective(w) ==
    /\ wpc[w] = "run"
    /\ work[workInProgress[w]].kind = "collective"
    /\ \E ok \in BOOLEAN :
          work' = [work EXCEPT ![workInProgress[w]] =
                      Finish([@ EXCEPT !.issued = TRUE], ok)]
    /\ wpc' = [wpc EXCEPT ![w] = "relock"]
    /\ UNCHANGED <<dispatchVars, p2pVars, allgatherVars, sparseVars, denseVars, cudaVars,
                   spmdVars, typedVars, waitVars, shapeVars, convVars>>
    /\ UNCHANGED <<ncallers, threads, collectiveCounter, workQueue, workInProgress, stop, cpc,
                   dpc, enqOrder, deqOrder, dtorEnq>>

\* AsyncBarrierWork::run, the loop over priorWork: an entry that no longer
\* upgrades is skipped, else work->wait() blocks until the item is completed and
\* re-raises its failure, which ends run().
BarrierWaitPrior(w) ==
    /\ wpc[w] = "run"
    /\ LET b == workInProgress[w]
           p == work[b].prior[work[b].pos]
       IN /\ work[b].kind = "barrier"
          /\ work[b].pos <= Len(work[b].prior)
          /\ IF p = 0 \/ ~Alive(p)
             THEN /\ work' = [work EXCEPT ![b].pos = @ + 1]
                  /\ wpc' = wpc
             ELSE /\ WaitUnblocked(work[p])
                  /\ IF WaitRaises(work[p])
                     THEN /\ work' = [work EXCEPT ![b] = Finish(@, FALSE)]
                          /\ wpc' = [wpc EXCEPT ![w] = "relock"]
                     ELSE /\ work' = [work EXCEPT ![b].pos = @ + 1]
                          /\ wpc' = wpc
    /\ UNCHANGED <<dispatchVars, p2pVars, allgatherVars, sparseVars, denseVars, cudaVars,
                   spmdVars, typedVars, waitVars, shapeVars, convVars>>
    /\ UNCHANGED <<ncallers, threads, collectiveCounter, workQueue, workInProgress, stop, cpc,
                   dpc, enqOrder, deqOrder, dtorEnq>>

\* AsyncBarrierWork::run, after the loop: gloo::barrier(opts) with the tag.
BarrierIssue(w) ==
    /\ wpc[w] = "run"
    /\ LET b == workInProgress[w]
       IN /\ work[b].kind = "barrier"
          /\ work[b].pos > Len(work[b].prior)
          /\ \E ok \in BOOLEAN :
                work' = [work EXCEPT ![b] = Finish([@ EXCEPT !.issued = TRUE], ok)]
    /\ wpc' = [wpc EXCEPT ![w] = "relock"]
    /\ UNCHANGED <<dispatchVars, p2pVars, allgatherVars, sparseVars, denseVars, cudaVars,
                   spmdVars, typedVars, waitVars, shapeVars, convVars>>
    /\ UNCHANGED <<ncallers, threads, collectiveCounter, workQueue, workInProgress, stop, cpc,
                   dpc, enqOrder, deqOrder, dtorEnq>>

WorkerRelockLeavesOnFailure(w) ==
    /\ wpc[w] = "relock"
    /\ IF work[workInProgress[w]].failed
       THEN /\ wpc' = [wpc EXCEPT ![w] = "exited"]
            /\ UNCHANGED <<workInProgress, workQueue, work, deqOrder>>
       ELSE LoopPass(w, [workInProgress EXCEPT ![w] = 0])
    /\ UNCHANGED <<dispatchVars, p2pVars, allgatherVars, sparseVars, denseVars, cudaVars,
                   spmdVars, typedVars, waitVars, shapeVars, convVars>>
    /\ UNCHANGED <<ncallers, threads, collectiveCounter, stop, cpc, dpc, enqOrder, dtorEnq>>

\* After execute(): lock, clear the slot, and go round the loop with the lock held.
WorkerRelock(w) ==
    /\ wpc[w] = "relock"
    /\ LoopPass(w, [workInProgress EXCEPT ![w] = 0])
    /\ UNCHANGED <<dispatchVars, p2pVars, allgatherVars, sparseVars, denseVars, cudaVars,
                   spmdVars, typedVars, waitVars, shapeVars, convVars>>
    /\ UNCHANGED <<ncallers, threads, collectiveCounter, stop, cpc, dpc, enqOrder, dtorEnq>>

\* ------------------------------------------------------------------------
\* The destructor
\* ------------------------------------------------------------------------

DrainedAlways(queue) == TRUE

\* The predicate of workConsumeCV_.wait(lock, ...): workQueue_.empty().
Drained(queue) == queue = <<>>

\* The predicate is evaluated with the lock held: stop_ = true when it holds,
\* else the destructor waits on workConsumeCV_.
DtorPass ==
    IF Drained(workQueue)
    THEN stop' = TRUE /\ dpc' = "notifyAll"
    ELSE stop' = stop /\ dpc' = "waiting"

\* ~ProcessGroupGloo() begins.
DtorBegin ==
    /\ dpc = "none"
    /\ DtorPass
    /\ dtorEnq' = Len(enqOrder)
    /\ UNCHANGED <<dispatchVars, p2pVars, allgatherVars, sparseVars, denseVars, cudaVars,
                   spmdVars, typedVars, waitVars, shapeVars, convVars>>
    /\ UNCHANGED <<ncallers, threads, collectiveCounter, work, workQueue, workInProgress, wpc,
                   cpc, enqOrder, deqOrder>>

\* The destructor was notified: it evaluates the predicate again.
DtorRecheck ==
    /\ dpc = "check"
    /\ DtorPass
    /\ UNCHANGED <<dispatchVars, p2pVars, allgatherVars, sparseVars, denseVars, cudaVars,
                   spmdVars, typedVars, waitVars, shapeVars, convVars>>
    /\ UNCHANGED <<ncallers, threads, collectiveCounter, work, workQueue, workInProgress, wpc,
                   cpc, enqOrder, deqOrder, dtorEnq>>

\* workProduceCV_.notify_all() after the unlock.
DtorNotifyAll ==
    /\ dpc = "notifyAll"
    /\ wpc' = [w \in Workers |-> IF wpc[w] = "waiting" THEN "loop" ELSE wpc[w]]
    /\ dpc' = "join"
    /\ UNCHANGED <<dispatchVars, p2pVars, allgatherVars, sparseVars, denseVars, cudaVars,
                   spmdVars, typedVars, waitVars, shapeVars, convVars>>
    /\ UNCHANGED <<ncallers, threads, collectiveCounter, work, workQueue, workInProgress, stop,
                   cpc, enqOrder, deqOrder, dtorEnq>>

\* thread.join() of every worker; the destructor returns.
DtorJoin ==
    /\ dpc = "join"
    /\ \A w \in Workers : wpc[w] = "exited"
    /\ dpc' = "returned"
    /\ UNCHANGED <<dispatchVars, p2pVars, allgatherVars, sparseVars, denseVars, cudaVars,
                   spmdVars, typedVars, waitVars, shapeVars, convVars>>
    /\ UNCHANGED <<ncallers, threads, collectiveCounter, work, workQueue, workInProgress, stop,
                   wpc, cpc, enqOrder, deqOrder, dtorEnq>>

\* ------------------------------------------------------------------------
\* The process group while it is alive: callers and workers
\* ------------------------------------------------------------------------

\* Several callers with one worker, or one caller with several workers.
Init ==
    /\ PoolInit
    /\ (ncallers = 1 \/ threads = 1)
    /\ DispatchIdle
    /\ P2PIdle
    /\ AllgatherIdle
    /\ SparseIdle
    /\ DenseIdle
    /\ CudaIdle
    /\ SpmdIdle
    /\ TypedIdle
    /\ WaitIdle
    /\ ShapeIdle
    /\ ConvIdle

Next ==
    \/ \E c \in Callers : DispatchCollective(c)
    \/ \E c \in Callers : BarrierSnapshot(c)
    \/ \E c \in Callers : BarrierTag(c)
    \/ \E c \in Callers : Enqueue(c)
    \/ \E c \in Callers : NotifyProduced(c)
    \/ \E i \in Ids : DropHandle(i)
    \/ \E w \in Workers : WorkerLoop(w)
    \/ \E w \in Workers : SpuriousWakeup(w)
    \/ \E w \in Workers : NotifyConsumed(w)
    \/ \E w \in Workers : RunCollective(w)
    \/ \E w \in Workers : BarrierWaitPrior(w)
    \/ \E w \in Workers : BarrierIssue(w)
    \/ \E w \in Workers : WorkerRelock(w)

Spec == Init /\ [][Next]_vars

\* ------------------------------------------------------------------------
\* The process group and its destruction
\* ------------------------------------------------------------------------

\* One caller, racing with the destructor.
DtorInit ==
    /\ PoolInit
    /\ ncallers = 1
    /\ threads <= MaxDtorWorkers
    /\ DispatchIdle
    /\ P2PIdle
    /\ AllgatherIdle
    /\ SparseIdle
    /\ DenseIdle
    /\ CudaIdle
    /\ SpmdIdle
    /\ TypedIdle
    /\ WaitIdle
    /\ ShapeIdle
    /\ ConvIdle

DtorNext ==
    \/ Next
    \/ DtorBegin
    \/ DtorRecheck
    \/ DtorNotifyAll
    \/ DtorJoin

DtorSpec == DtorInit /\ [][DtorNext]_vars

\* ------------------------------------------------------------------------
\* Properties of the tag allocator, the queue and the barrier
\* ------------------------------------------------------------------------

Tagged(i) == work[i].tag # -1

Enqueued(i) == i \in Range(enqOrder)

Dequeued(i) == i \in Range(deqOrder)

\* C1, as stated: any two work items whose tag nextTag() allocated have different
\* tags, whatever number of tags was allocated between them.
C1_TagsDistinct_AsClaimed ==
    \A i, j \in Ids :
        (i # j /\ Tagged(i) /\ Tagged(j)) => work[i].tag # work[j].tag

\* C1, amended: two work items whose tags were allocated fewer than the counter's
\* modulus (2^32) calls of nextTag() apart have different tags, also when the
\* dispatch calls are made concurrently.
C1_TagsDistinctWithinWrap ==
    \A i, j \in Ids :
        (/\ i # j
         /\ Tagged(i)
         /\ Tagged(j)
         /\ work[i].alloc - work[j].alloc < TagModulus
         /\ work[j].alloc - work[i].alloc < TagModulus)
        => work[i].tag # work[j].tag

\* C1, witness: two callers are inside a dispatch call at once, each with a tag
\* allocated and its work item not yet enqueued.
C1_Witness ==
    \E c, d \in Callers :
        /\ c # d
        /\ cpc[c].pc = "enqueue"
        /\ cpc[d].pc = "enqueue"
        /\ Tagged(cpc[c].id)
        /\ Tagged(cpc[d].id)

\* C2, as stated: a completed barrier has every work item that was enqueued
\* before the barrier() call completed, and the transport barrier is issued only
\* when they all are.
C2_BarrierAfterPrior_AsClaimed ==
    \A b \in Ids :
        (work[b].kind = "barrier" /\ (Completed(b) \/ work[b].issued))
        => \A k \in 1..work[b].before : Completed(enqOrder[k])

\* C6, as stated: of two work items, the one whose tag was allocated first is
\* pushed on the queue first and popped first.
C6_TagOrderIsQueueOrder_AsClaimed ==
    \A a, b \in Ids :
        (Tagged(a) /\ Tagged(b) /\ work[a].alloc < work[b].alloc)
        => /\ (Enqueued(a) /\ Enqueued(b))
                => IndexOf(enqOrder, a) < IndexOf(enqOrder, b)
           /\ (Dequeued(a) /\ Dequeued(b))
                => IndexOf(deqOrder, a) < IndexOf(deqOrder, b)

\* The scenario of C7: collective a is the only item enqueued before the call of
\* barrier b, and collective c is enqueued after b.
AThenBarrierThenC(a, b, c) ==
    /\ work[a].kind = "collective"
    /\ work[b].kind = "barrier"
    /\ work[c].kind = "collective"
    /\ work[b].before = 1
    /\ enqOrder[1] = a
    /\ Enqueued(b)
    /\ Enqueued(c)
    /\ IndexOf(enqOrder, b) < IndexOf(enqOrder, c)

\* The item's run() has been entered: the worker that popped it is past the
\* notification of workConsumeCV_.
Started(i) ==
    \/ work[i].status = "completed"
    \/ \E w \in Workers : workInProgress[w] = i /\ wpc[w] \in {"run", "relock"}

\* C7, as stated: for every pool size, C is not taken by a worker before A has
\* completed.
C7_BarrierOrdersLater_AsClaimed ==
    \A a, b, c \in Ids :
        (AThenBarrierThenC(a, b, c) /\ Started(c)) => Completed(a)

\* C7, amended: with at most two worker threads, C is not taken by a worker
\* before A has completed.
C7_BarrierOrdersLaterUpToTwoWorkers ==
    threads <= 2 =>
        \A a, b, c \in Ids :
            (AThenBarrierThenC(a, b, c) /\ Started(c)) => Completed(a)

\* C7, witness: two workers, A was still in a worker's slot when barrier() took
\* its snapshot, and C has been taken by a worker.
C7_Witness ==
    /\ threads = 2
    /\ \E a, b, c \in Ids :
          /\ AThenBarrierThenC(a, b, c)
          /\ a \in Range(work[b].prior)
          /\ Started(c)

\* C3: when the destructor has returned, every work item that was enqueued
\* before it began is completed and every worker thread has left runLoop.
C3_DtorDrains ==
    dpc = "returned" =>
        /\ \A k \in 1..dtorEnq : Completed(enqOrder[k])
        /\ \A w \in Workers : wpc[w] = "exited"

\* C3, witness: the destructor has returned, and it began with all the work
\* items enqueued, which the workers all took.
C3_Witness ==
    /\ dpc = "returned"
    /\ dtorEnq = MaxOps
    /\ Len(deqOrder) = MaxOps

\* ------------------------------------------------------------------------
\* The dispatch entry points: validation, then nextTag() and enqueue()
\* ------------------------------------------------------------------------

\* The number of ranks of the group, ProcessGroup::size_.
GroupSize == 2

\* The longest tensor list a caller passes.
MaxTensors == 2

\* The behaviours of the dispatch entry points go on until MaxQueued calls have
\* enqueued their work.
MaxQueued == 1

ScalarTypes == {"float", "int"}

Shapes == {<<2>>, <<3>>}

Layouts == {"strided", "sparse", "mkldnn"}

DeviceTypes == {"cpu", "cuda", "xla"}

ReduceOps == {"SUM", "PRODUCT"}

\* A tensor, as far as the dispatch layer looks at it.
DefaultTensor == [scalar |-> "float", sizes |-> <<2>>, layout |-> "strided", device |-> "cpu"]

\* The first tensor of a list has any layout and any device.
FirstTensors == {[DefaultTensor EXCEPT !.layout = l, !.device = d] :
                    l \in Layouts, d \in DeviceTypes}

\* A later tensor of the list is like the first or differs from it in one
\* attribute.
Variants(t) ==
    {[t EXCEPT !.scalar = x] : x \in ScalarTypes}
    \cup {[t EXCEPT !.sizes = x] : x \in Shapes}
    \cup {[t EXCEPT !.layout = x] : x \in Layouts}
    \cup {[t EXCEPT !.device = x] : x \in DeviceTypes}

TensorLists ==
    {<<>>} \cup
    UNION {{[i \in 1..n |-> IF i = 1 THEN t ELSE f[i]] : f \in [1..n -> Variants(t)]} :
              n \in 1..MaxTensors, t \in FirstTensors}

\* The first tensor of a list, by which the tensors of a nested list are drawn.
Base(tensors) == IF Len(tensors) > 0 THEN tensors[1] ELSE DefaultTensor

Unlike(t) == [t EXCEPT !.scalar = IF @ = "float" THEN "int" ELSE "float"]

\* Lists of no tensor, of size tensors or of MaxTensors * size tensors like
\* base, the last of which may be of another type.
InnerLists(base) ==
    {[j \in 1..m |-> IF d /\ j = m THEN Unlike(base) ELSE base] :
        m \in {0, GroupSize, MaxTensors * GroupSize}, d \in BOOLEAN}

\* Lists of equal lists.
NestedLists(base) ==
    {[i \in 1..n |-> inner] : n \in 0..MaxTensors, inner \in InnerLists(base)}

RootRanks == (0 - 1)..GroupSize

RootTensors == (0 - 1)..MaxTensors

\* The options of broadcast and reduce: any root rank with root tensor 0, or
\* any root tensor with root rank 0.
RootOptions ==
    {[rootRank |-> r, rootTensor |-> 0] : r \in RootRanks}
    \cup {[rootRank |-> 0, rootTensor |-> t] : t \in RootTensors}

\* at::Tensor::type(): the backend (device type and layout) and the scalar type.
Type(t) == <<t.scalar, t.layout, t.device>>

\* The checks of Utils.hpp; each is TRUE when the check passes.
assertRootRank(rootRank, size) == rootRank >= 0 /\ rootRank < size

assertRootTensor(rootTensor, n) == rootTensor >= 0 /\ rootTensor < n

assertNonEmpty(tensors) == Len(tensors) > 0

assertSingleElement(tensors) == Len(tensors) = 1

assertSingleElementInput(tensors) == Len(tensors) = 1

assertSingleElementOutput(tensors) == Len(tensors) = 1

assertLayoutMatch(tensors) ==
    \A i \in 1..Len(tensors) : tensors[i].layout = tensors[1].layout

assertDense(tensors) ==
    \A i \in 1..Len(tensors) : tensors[i].layout = "strided"

assertTypeAndSizesMatchTo(tensors, type, sizes) ==
    \A i \in 1..Len(tensors) : Type(tensors[i]) = type /\ tensors[i].sizes = sizes

assertTypeAndSizesMatch(tensors) ==
    assertTypeAndSizesMatchTo(tensors, Type(tensors[1]), tensors[1].sizes)

\* switch (device.type()) { case at::kCPU: #ifdef USE_CUDA case at::kCUDA: #endif break; ... }
DeviceSupported(device) == device = "cpu" \/ (useCuda /\ device = "cuda")

\* A dispatch call. early is the error found before nextTag() and late the
\* error found after it ("none" when there is none). The call throws
\* std::invalid_argument with the error, or calls enqueue(work).
DispatchWith(op, early, late, sparse, reduceOp) ==
    /\ call' = [op |-> op,
                error |-> IF early # "none" THEN early ELSE late,
                thrown |-> IF early # "none" \/ late # "none"
                           THEN "invalid_argument" ELSE "none",
                sparse |-> sparse,
                reduceOp |-> reduceOp,
                counterBefore |-> collectiveCounter,
                queueBefore |-> workQueue,
                slotsBefore |-> workInProgress]
    /\ IF early # "none"
       THEN UNCHANGED <<collectiveCounter, work, workQueue, enqOrder>>
       ELSE IF late # "none"
       THEN /\ collectiveCounter' = AllocateTag.counter
            /\ UNCHANGED <<work, workQueue, enqOrder>>
       ELSE /\ Len(workQueue) < MaxQueued
            /\ collectiveCounter' = AllocateTag.counter
            /\ work' = [work EXCEPT ![NextId] = [NoWork EXCEPT !.kind = "collective",
                           !.tag = AllocateTag.tag, !.alloc = AllocCount + 1,
                           !.status = "queued", !.held = TRUE]]
            /\ workQueue' = Append(workQueue, NextId)
            /\ enqOrder' = Append(enqOrder, NextId)
    /\ UNCHANGED <<ncallers, threads, workInProgress, stop, wpc, cpc, dpc, deqOrder,
                   dtorEnq, useCuda, rank>>
    /\ UNCHANGED <<p2pVars, allgatherVars, sparseVars, denseVars, cudaVars,
                   spmdVars, typedVars, waitVars, shapeVars, convVars>>

\* An entry point whose checks look at neither a sparse layout nor the reduce op.
Dispatch(op, early, late) == DispatchWith(op, early, late, FALSE, "SUM")

broadcastCheck(inputs, rootRank, rootTensor) ==
    IF ~assertRootRank(rootRank, GroupSize) THEN "invalid root rank"
    ELSE IF ~assertRootTensor(rootTensor, Len(inputs)) THEN "invalid root tensor"
    ELSE IF ~assertDense(inputs) THEN "only supports dense tensors"
    ELSE IF ~assertTypeAndSizesMatch(inputs) THEN "invalid tensor type or size"
    ELSE IF ~DeviceSupported(inputs[1].device) THEN "unsupported device type"
    ELSE "none"

\* ProcessGroupGloo::broadcast
broadcast(inputs, rootRank, rootTensor) ==
    Dispatch("broadcast", broadcastCheck(inputs, rootRank, rootTensor), "none")

allreduceCheckAnyOp(inputs, reduceOp) ==
    IF ~assertNonEmpty(inputs) THEN "requires non-empty tensor list"
    ELSE IF ~assertLayoutMatch(inputs) THEN "tensors must all have the same layout"
    ELSE IF ~assertTypeAndSizesMatch(inputs) THEN "invalid tensor type or size"
    ELSE IF ~DeviceSupported(inputs[1].device) THEN "unsupported device type"
    ELSE "none"

allreduceCheck(inputs, reduceOp) ==
    IF ~assertNonEmpty(inputs) THEN "requires non-empty tensor list"
    ELSE IF ~assertLayoutMatch(inputs) THEN "tensors must all have the same layout"
    ELSE IF ~assertTypeAndSizesMatch(inputs) THEN "invalid tensor type or size"
    ELSE IF ~DeviceSupported(inputs[1].device) THEN "unsupported device type"
    ELSE IF inputs[1].layout = "sparse" /\ reduceOp # "SUM"
         THEN "unsupported reduction operation"
    ELSE "none"

\* After nextTag(): the layout picks the work class.
allreduceLayout(inputs) ==
    IF Len(inputs) > 0 /\ inputs[1].layout \notin {"strided", "sparse"}
    THEN "unsupported layout"
    ELSE "none"

\* ProcessGroupGloo::allreduce
allreduce(inputs, reduceOp) ==
    DispatchWith("allreduce", allreduceCheck(inputs, reduceOp), allreduceLayout(inputs),
                 Len(inputs) > 0 /\ \A i \in 1..Len(inputs) : inputs[i].layout = "sparse",
                 reduceOp)

allreduce_coalescedCheckNoLayout(tensors) ==
    IF ~assertNonEmpty(tensors) THEN "requires non-empty tensor list"
    ELSE IF ~assertLayoutMatch(tensors) THEN "tensors must all have the same layout"
    ELSE IF \E i \in 1..Len(tensors) : Type(tensors[i]) # Type(tensors[1])
         THEN "tensors must all have the same type"
    ELSE IF \E i \in 1..Len(tensors) : tensors[i].device # tensors[1].device
         THEN "tensors must all be on the same device"
    ELSE IF tensors[1].device # "cpu" THEN "unsupported device type"
    ELSE "none"

allreduce_coalescedCheck(tensors) ==
    IF ~assertNonEmpty(tensors) THEN "requires non-empty tensor list"
    ELSE IF ~assertLayoutMatch(tensors) THEN "tensors must all have the same layout"
    ELSE IF \E i \in 1..Len(tensors) : Type(tensors[i]) # Type(tensors[1])
         THEN "tensors must all have the same type"
    ELSE IF \E i \in 1..Len(tensors) : tensors[i].device # tensors[1].device
         THEN "tensors must all be on the same device"
    ELSE IF tensors[1].device # "cpu" THEN "unsupported device type"
    ELSE IF tensors[1].layout # "strided" THEN "unsupported layout"
    ELSE "none"

\* After nextTag(): the layout is looked at once more.
allreduce_coalescedLayout(tensors) ==
    IF Len(tensors) > 0 /\ tensors[1].layout # "strided"
    THEN "unsupported layout"
    ELSE "none"

\* ProcessGroupGloo::allreduce_coalesced
allreduce_coalesced(tensors) ==
    Dispatch("allreduce_coalesced", allreduce_coalescedCheck(tensors),
             allreduce_coalescedLayout(tensors))

reduceCheck(inputs, rootRank, rootTensor) ==
    IF ~assertRootRank(rootRank, GroupSize) THEN "invalid root rank"
    ELSE IF ~assertRootTensor(rootTensor, Len(inputs)) THEN "invalid root tensor"
    ELSE IF ~assertSingleElement(inputs) THEN "requires a single-element tensor list"
    ELSE IF ~assertDense(inputs) THEN "only supports dense tensors"
    ELSE IF ~DeviceSupported(inputs[1].device) THEN "unsupported device type"
    ELSE "none"

\* ProcessGroupGloo::reduce
reduce(inputs, rootRank, rootTensor) ==
    Dispatch("reduce", reduceCheck(inputs, rootRank, rootTensor), "none")

allgatherCheck(outputs, inputs) ==
    IF Len(inputs) = 0 THEN "requires non-empty input tensor list"
    ELSE IF Len(inputs) # Len(outputs)
         THEN "requires input/output tensor lists to have the same length"
    ELSE IF \E i \in 1..Len(outputs) : Len(outputs[i]) # Len(inputs) * GroupSize
         THEN "invalid output tensor list"
    ELSE IF ~assertDense(inputs) THEN "only supports dense tensors"
    ELSE IF ~assertTypeAndSizesMatchTo(inputs, Type(inputs[1]), inputs[1].sizes)
         THEN "invalid tensor type or size"
    ELSE IF \E i \in 1..Len(outputs) :
                ~assertTypeAndSizesMatchTo(outputs[i], Type(inputs[1]), inputs[1].sizes)
         THEN "invalid tensor type or size"
    ELSE IF ~DeviceSupported(inputs[1].device) THEN "unsupported device type"
    ELSE "none"

\* ProcessGroupGloo::allgather
allgather(outputs, inputs) ==
    Dispatch("allgather", allgatherCheck(outputs, inputs), "none")

gatherCheckNoNonRoot(outputs, inputs, rootRank) ==
    IF ~assertRootRank(rootRank, GroupSize) THEN "invalid root rank"
    ELSE IF ~assertSingleElementInput(inputs) THEN "requires a single-element input list"
    ELSE IF ~assertDense(inputs) THEN "only supports dense tensors"
    ELSE IF rank = rootRank /\ (Len(outputs) # 1 \/ Len(outputs[1]) # GroupSize)
         THEN "requires a single-element output list containing a list with <size> tensors"
    ELSE IF rank = rootRank
            /\ ~assertTypeAndSizesMatchTo(outputs[1], Type(inputs[1]), inputs[1].sizes)
         THEN "invalid tensor type or size"
    ELSE IF ~DeviceSupported(inputs[1].device) THEN "unsupported device type"
    ELSE "none"

gatherCheck(outputs, inputs, rootRank) ==
    IF ~assertRootRank(rootRank, GroupSize) THEN "invalid root rank"
    ELSE IF ~assertSingleElementInput(inputs) THEN "requires a single-element input list"
    ELSE IF ~assertDense(inputs) THEN "only supports dense tensors"
    ELSE IF rank = rootRank /\ (Len(outputs) # 1 \/ Len(outputs[1]) # GroupSize)
         THEN "requires a single-element output list containing a list with <size> tensors"
    ELSE IF rank = rootRank
            /\ ~assertTypeAndSizesMatchTo(outputs[1], Type(inputs[1]), inputs[1].sizes)
         THEN "invalid tensor type or size"
    ELSE IF rank # rootRank /\ Len(outputs) # 0 THEN "requires empty output on non-root"
    ELSE IF ~DeviceSupported(inputs[1].device) THEN "unsupported device type"
    ELSE "none"

\* ProcessGroupGloo::gather
gather(outputs, inputs, rootRank) ==
    Dispatch("gather", gatherCheck(outputs, inputs, rootRank), "none")

scatterCheck(outputs, inputs, rootRank) ==
    IF ~assertRootRank(rootRank, GroupSize) THEN "invalid root rank"
    ELSE IF ~assertSingleElementOutput(outputs) THEN "requires a single-element output list"
    ELSE IF ~assertDense(outputs) THEN "only supports dense tensors"
    ELSE IF rank = rootRank /\ (Len(inputs) # 1 \/ Len(inputs[1]) # GroupSize)
         THEN "requires a single-element input list containing a list with <size> tensors"
    ELSE IF rank = rootRank
            /\ ~assertTypeAndSizesMatchTo(inputs[1], Type(outputs[1]), outputs[1].sizes)
         THEN "invalid tensor type or size"
    ELSE IF rank # rootRank /\ Len(inputs) # 0 THEN "requires empty input on non-root"
    ELSE IF ~DeviceSupported(outputs[1].device) THEN "unsupported device type"
    ELSE "none"

\* ProcessGroupGloo::scatter
scatter(outputs, inputs, rootRank) ==
    Dispatch("scatter", scatterCheck(outputs, inputs, rootRank), "none")

\* One thread calls the entry points of one rank; the workers are left out.
\* ProcessGroupGloo::reduce_scatter: the body is one throw statement.
reduce_scatterSilent(outputs, inputs) == "none"

reduce_scatterError(outputs, inputs) == "ProcessGroupGloo does not support reduce_scatter"

reduce_scatter(outputs, inputs) ==
    /\ call' = [NoCall EXCEPT !.op = "reduce_scatter",
                              !.error = reduce_scatterError(outputs, inputs),
                              !.thrown = IF reduce_scatterError(outputs, inputs) = "none"
                                         THEN "none" ELSE "runtime_error",
                              !.counterBefore = collectiveCounter,
                              !.queueBefore = workQueue,
                              !.slotsBefore = workInProgress]
    /\ UNCHANGED <<poolVars, useCuda, rank, p2pVars, allgatherVars, sparseVars, denseVars, cudaVars,
                   spmdVars, typedVars, waitVars, shapeVars, convVars>>

DispatchInit ==
    /\ PoolInit
    /\ ncallers = 1
    /\ threads = 1
    /\ useCuda \in BOOLEAN
    /\ rank \in 0..(GroupSize - 1)
    /\ call = NoCall
    /\ P2PIdle
    /\ AllgatherIdle
    /\ SparseIdle
    /\ DenseIdle
    /\ CudaIdle
    /\ SpmdIdle
    /\ TypedIdle
    /\ WaitIdle
    /\ ShapeIdle
    /\ ConvIdle

DispatchNext ==
    \/ \E inputs \in TensorLists, opts \in RootOptions :
          broadcast(inputs, opts.rootRank, opts.rootTensor)
    \/ \E inputs \in TensorLists, reduceOp \in ReduceOps :
          allreduce(inputs, reduceOp)
    \/ \E tensors \in TensorLists :
          allreduce_coalesced(tensors)
    \/ \E inputs \in TensorLists, opts \in RootOptions :
          reduce(inputs, opts.rootRank, opts.rootTensor)
    \/ \E inputs \in TensorLists : \E outputs \in NestedLists(Base(inputs)) :
          allgather(outputs, inputs)
    \/ \E inputs \in TensorLists, rootRank \in RootRanks :
          \E outputs \in NestedLists(Base(inputs)) :
             gather(outputs, inputs, rootRank)
    \/ \E outputs \in TensorLists, rootRank \in RootRanks :
          \E inputs \in NestedLists(Base(outputs)) :
             scatter(outputs, inputs, rootRank)
    \/ \E outputs \in TensorLists : \E inputs \in {<<>>, <<outputs>>} :
          reduce_scatter(outputs, inputs)

DispatchSpec == DispatchInit /\ [][DispatchNext]_vars

\* C5, as stated: a dispatch call that throws an argument error has left the
\* tag counter at the value it had before the call and has enqueued nothing.
C5_FailedCallChangesNothing_AsClaimed ==
    call.error # "none" =>
        /\ collectiveCounter = call.counterBefore
        /\ workQueue = call.queueBefore

\* The calls of allreduce and reduce_scatter alone.
ReduceDispatchNext ==
    \/ \E inputs \in TensorLists, reduceOp \in ReduceOps :
          allreduce(inputs, reduceOp)
    \/ \E outputs \in TensorLists : \E inputs \in {<<>>, <<outputs>>} :
          reduce_scatter(outputs, inputs)

ReduceDispatchSpec == DispatchInit /\ [][ReduceDispatchNext]_vars

\* The error kind of a call that threw: the entry points raise invalid-argument
\* as std::invalid_argument, and the other errors as std::runtime_error, which is
\* the unsupported kind when the message says the operation is not supported.
ErrorKind(c) ==
    CASE c.thrown = "none" -> "none"
      [] c.thrown = "invalid_argument" -> "invalid-argument"
      [] c.thrown = "runtime_error" /\ c.error = "ProcessGroupGloo does not support reduce_scatter"
            -> "unsupported"
      [] OTHER -> "runtime"

\* A call has left the tag counter, the work queue and the slots of the workers
\* as they were before it.
CallChangedNothing ==
    /\ collectiveCounter = call.counterBefore
    /\ workQueue = call.queueBefore
    /\ workInProgress = call.slotsBefore

\* C16: reduce_scatter fails with the unsupported error whatever its arguments
\* are, and leaves the tag counter, the work queue and the in-progress slots
\* unchanged.
C16_ReduceScatterUnsupported ==
    call.op = "reduce_scatter" =>
        /\ call.thrown = "runtime_error"
        /\ ErrorKind(call) = "unsupported"
        /\ CallChangedNothing

\* C16, witness: reduce_scatter has been called while a work item was in the
\* queue and the tag counter had advanced.
C16_Witness ==
    /\ call.op = "reduce_scatter"
    /\ call.queueBefore # <<>>
    /\ call.counterBefore # 0

\* The lists that C28 says allreduce_coalesced rejects: the empty list, tensors
\* that differ in layout, scalar type or device, a device other than the CPU, a
\* layout other than strided.
CoalescedInvalid(tensors) ==
    \/ Len(tensors) = 0
    \/ \E i \in 1..Len(tensors) :
           \/ tensors[i].layout # tensors[1].layout
           \/ tensors[i].scalar # tensors[1].scalar
           \/ tensors[i].device # tensors[1].device
    \/ tensors[1].device # "cpu"
    \/ tensors[1].layout # "strided"

\* The last call has thrown std::invalid_argument before nextTag(): the tag
\* counter, the work queue and the slots are as before the call.
RejectedEarly ==
    /\ call.thrown = "invalid_argument"
    /\ ErrorKind(call) = "invalid-argument"
    /\ CallChangedNothing

\* C28: allreduce_coalesced rejects an empty list, tensors of differing layout,
\* type or device, a non-CPU device and a non-strided layout, and no other
\* list; a call that it rejects has thrown the invalid-argument error before
\* nextTag(), so that the tag counter and the work queue are unchanged.
C28_CoalescedRejectsBeforeTag ==
    /\ \A tensors \in TensorLists :
           CoalescedInvalid(tensors) <=> allreduce_coalescedCheck(tensors) # "none"
    /\ (call.op = "allreduce_coalesced" /\ call.error # "none") => RejectedEarly

\* C28, witness: allreduce_coalesced has rejected a list for its layout, after
\* another call had advanced the tag counter, and the counter is as it was.
C28_Witness ==
    /\ call.op = "allreduce_coalesced"
    /\ call.error = "unsupported layout"
    /\ call.thrown = "invalid_argument"
    /\ call.counterBefore # 0
    /\ collectiveCounter = call.counterBefore

\* The shape of the nested list that C29 says gather and scatter accept: on
\* the root one inner list of size tensors, elsewhere no inner list.
NestedShapeOk(nested, rootRank) ==
    IF rank = rootRank
    THEN Len(nested) = 1 /\ Len(nested[1]) = GroupSize
    ELSE Len(nested) = 0

\* C29: gather rejects its outputs, and scatter its inputs, unless the nested
\* list has one inner list of size tensors on the root rank and is empty on
\* every other rank; a call that gather or scatter rejects has thrown the
\* invalid-argument error before a tag is allocated.
C29_NestedShapeCheckedBeforeTag ==
    /\ \A inputs \in TensorLists, rootRank \in RootRanks :
           \A outputs \in NestedLists(Base(inputs)) :
              ~NestedShapeOk(outputs, rootRank) => gatherCheck(outputs, inputs, rootRank) # "none"
    /\ \A outputs \in TensorLists, rootRank \in RootRanks :
           \A inputs \in NestedLists(Base(outputs)) :
              ~NestedShapeOk(inputs, rootRank) => scatterCheck(outputs, inputs, rootRank) # "none"
    /\ (call.op \in {"gather", "scatter"} /\ call.error # "none") => RejectedEarly

\* C29, witness: scatter has rejected non-empty inputs on a rank that is not
\* the root, after another call had advanced the tag counter.
C29_Witness ==
    /\ call.op = "scatter"
    /\ call.error = "requires empty input on non-root"
    /\ call.thrown = "invalid_argument"
    /\ call.counterBefore # 0
    /\ collectiveCounter = call.counterBefore

\* C17, as stated: an allreduce of sparse tensors with a reduce op other than
\* SUM fails with the unsupported error kind, with no tag allocated and nothing
\* enqueued.
C17_SparseNonSumUnsupported_AsClaimed ==
    (call.op = "allreduce" /\ call.sparse /\ call.reduceOp # "SUM") =>
        /\ ErrorKind(call) = "unsupported"
        /\ CallChangedNothing

\* C17, amended: an allreduce of sparse tensors with a reduce op other than SUM
\* fails with the invalid-argument error kind, with no tag allocated and nothing
\* enqueued.
C17_SparseNonSumInvalidArgument ==
    (call.op = "allreduce" /\ call.sparse /\ call.reduceOp # "SUM") =>
        /\ ErrorKind(call) = "invalid-argument"
        /\ CallChangedNothing

\* C17, witness: an allreduce of sparse tensors with PRODUCT was rejected for its
\* reduce op, after another call had advanced the tag counter.
C17_Witness ==
    /\ call.op = "allreduce"
    /\ call.sparse
    /\ call.reduceOp = "PRODUCT"
    /\ call.error = "unsupported reduction operation"
    /\ call.counterBefore # 0

\* ------------------------------------------------------------------------
\* send, recv and the handles they return
\* ------------------------------------------------------------------------

\* The handles one behaviour creates.
MaxHandles == 2

\* The wait() calls of one behaviour.
MaxWaits == 3

\* int32_t: the largest value of the tag parameter.
Int32Max == 2147483647

\* The tags a caller passes to send, recv and recvAnysource.
UserTags == {0 - 1, 0, Int32Max}

\* A tensor, as far as checkSingleTensor looks at it.
P2PTensors == [contiguous : BOOLEAN, sparse : BOOLEAN]

\* The lists a caller passes: no tensor, one tensor, or several contiguous dense
\* tensors.
P2PTensorLists ==
    {<<>>} \cup {<<t>> : t \in P2PTensors}
           \cup {[i \in 1..n |-> [contiguous |-> TRUE, sparse |-> FALSE]] : n \in 2..MaxTensors}

\* at::Tensor& checkSingleTensor(std::vector<at::Tensor>& tensors)
checkSingleTensor(tensors) ==
    IF Len(tensors) # 1 THEN "ProcessGroupGloo::send takes a single tensor"
    ELSE IF ~tensors[1].contiguous THEN "input tensor has to be contiguous"
    ELSE IF tensors[1].sparse THEN "input tensor has to be dense"
    ELSE "none"

\* uint32_t checkTag(int32_t tag)
checkTagNever(tag) == "none"

checkTag(tag) == IF tag < 0 THEN "Tag must be >= 0" ELSE "none"

\* The exception that checkSingleTensor and checkTag throw with a message:
\* throw std::runtime_error(...).
Thrown(error) == IF error = "none" THEN "none" ELSE "runtime_error"

\* send, recv and recvAnysource: the checks throw; otherwise the unbound buffer
\* is created, the transfer is started with the ranks and the tag, and the
\* handle is returned, with exception_ null (0) and, for RecvWork, srcRank_ = -1.
PointToPoint(op, kind, tensors, ranks, tag) ==
    LET error == IF checkSingleTensor(tensors) # "none"
                 THEN checkSingleTensor(tensors)
                 ELSE checkTag(tag)
    IN /\ call' = [NoCall EXCEPT !.op = op, !.error = error, !.thrown = Thrown(error),
                                 !.counterBefore = collectiveCounter,
                                 !.queueBefore = workQueue,
                                 !.slotsBefore = workInProgress]
       /\ lastP2P' = [op |-> op, tag |-> tag, thrown |-> Thrown(error),
                      utag |-> IF error = "none" THEN tag ELSE 0 - 1,
                      buffersBefore |-> transport.buffers,
                      startedBefore |-> transport.started]
       /\ IF error # "none"
          THEN UNCHANGED <<handles, transport>>
          ELSE /\ Len(handles) < MaxHandles
               /\ transport' = [buffers |-> transport.buffers + 1,
                                started |-> transport.started + 1]
               /\ handles' = Append(handles, [op |-> op, kind |-> kind, ranks |-> ranks,
                                              completed |-> FALSE, exception |-> 0,
                                              srcRank |-> 0 - 1])
       /\ UNCHANGED <<poolVars, useCuda, rank, waits, lastWait, allgatherVars, sparseVars,
                      denseVars, cudaVars, spmdVars, typedVars, waitVars, shapeVars, convVars>>

\* ProcessGroupGloo::send
send(tensors, dstRank, tag) == PointToPoint("send", "send", tensors, <<dstRank>>, tag)

\* ProcessGroupGloo::recv
recv(tensors, srcRank, tag) == PointToPoint("recv", "recv", tensors, <<srcRank>>, tag)

\* srcRanks.resize(size_), then push_back(i) for every i < size_.
srcRanksResizedOnly(size) == [i \in 1..size |-> 0]

srcRanks(size) == [i \in 1..(2 * size) |-> IF i <= size THEN 0 ELSE i - size - 1]

\* ProcessGroupGloo::recvAnysource
recvAnysource(tensors, tag) ==
    PointToPoint("recvAnysource", "recv", tensors, srcRanks(GroupSize), tag)

\* try { buffer_->waitSend(); } catch (...) { exception_ = std::current_exception(); }
\* A success leaves exception_ as it was.
CapturedOrCleared(exception, ok, n) == IF ok THEN 0 ELSE n

Captured(exception, ok, n) == IF ok THEN exception ELSE n

\* SendWork::wait and RecvWork::wait. The transport's wait returns (ok) or
\* throws; the failure a throwing wait stores is named by the number of the
\* wait() call. The call raises the stored failure when there is one.
HandleWaitKeepsFirst(h, ok, src) ==
    /\ waits < MaxWaits
    /\ LET n == waits + 1
           e == IF handles[h].exception # 0 THEN handles[h].exception
                ELSE Captured(handles[h].exception, ok, n)
       IN /\ handles' = [handles EXCEPT ![h].exception = e,
                                        ![h].completed = TRUE,
                                        ![h].srcRank = IF ok /\ handles[h].kind = "recv"
                                                       THEN src ELSE @]
          /\ lastWait' = [handle |-> h, failed |-> ~ok, raised |-> e,
                          before |-> handles[h].exception]
          /\ waits' = n
    /\ UNCHANGED <<poolVars, dispatchVars, transport, lastP2P, allgatherVars, sparseVars,
                   denseVars, cudaVars, spmdVars, typedVars, waitVars, shapeVars, convVars>>

HandleWait(h, ok, src) ==
    /\ waits < MaxWaits
    /\ LET n == waits + 1
           e == Captured(handles[h].exception, ok, n)
       IN /\ handles' = [handles EXCEPT ![h].exception = e,
                                        ![h].completed = TRUE,
                                        ![h].srcRank = IF ok /\ handles[h].kind = "recv"
                                                       THEN src ELSE @]
          /\ lastWait' = [handle |-> h, failed |-> ~ok, raised |-> e,
                          before |-> handles[h].exception]
          /\ waits' = n
    /\ UNCHANGED <<poolVars, dispatchVars, transport, lastP2P, allgatherVars, sparseVars,
                   denseVars, cudaVars, spmdVars, typedVars, waitVars, shapeVars, convVars>>

\* ProcessGroupGloo::SendWork::wait
SendWork_wait(h) ==
    /\ handles[h].kind = "send"
    /\ \E ok \in BOOLEAN : HandleWait(h, ok, 0 - 1)

\* ProcessGroupGloo::RecvWork::wait. waitRecv(&srcRank_) stores the rank the
\* transport received from, one of the ranks the receive was started with.
RecvWork_wait(h) ==
    /\ handles[h].kind = "recv"
    /\ \E ok \in BOOLEAN, src \in Range(handles[h].ranks) : HandleWait(h, ok, src)

P2PInit ==
    /\ PoolInit
    /\ ncallers = 1
    /\ threads = 1
    /\ DispatchIdle
    /\ P2PIdle
    /\ AllgatherIdle
    /\ SparseIdle
    /\ DenseIdle
    /\ CudaIdle
    /\ SpmdIdle
    /\ TypedIdle
    /\ WaitIdle
    /\ ShapeIdle
    /\ ConvIdle

P2PNext ==
    \/ \E tensors \in P2PTensorLists, dstRank \in 0..(GroupSize - 1), tag \in UserTags :
          send(tensors, dstRank, tag)
    \/ \E tensors \in P2PTensorLists, srcRank \in 0..(GroupSize - 1), tag \in UserTags :
          recv(tensors, srcRank, tag)
    \/ \E tensors \in P2PTensorLists, tag \in UserTags : recvAnysource(tensors, tag)
    \/ \E h \in 1..Len(handles) : SendWork_wait(h)
    \/ \E h \in 1..Len(handles) : RecvWork_wait(h)

P2PSpec == P2PInit /\ [][P2PNext]_vars

\* C4, as stated: wait() on a send or recv handle raises exactly when the
\* transport's waitSend or waitRecv of that call failed.
C4_WaitRaisesIffTransportFailed_AsClaimed ==
    lastWait.handle # 0 => ((lastWait.raised # 0) <=> lastWait.failed)

\* C4, amended: when wait() on a send or recv handle is over the handle is
\* completed, and the call raised exactly when the transport's wait failed in
\* this call or in an earlier wait() call on the same handle.
C4_WaitRaisesIffFailureCaptured ==
    lastWait.handle # 0 =>
        /\ handles[lastWait.handle].completed
        /\ (lastWait.raised # 0) <=> (lastWait.failed \/ lastWait.before # 0)

\* C4, witness: a wait() call on a recv handle whose waitRecv succeeded, after a
\* wait() call on the same handle whose waitRecv failed.
C4_Witness ==
    /\ lastWait.handle # 0
    /\ handles[lastWait.handle].kind = "recv"
    /\ ~lastWait.failed
    /\ lastWait.before # 0
    /\ lastWait.raised # 0

\* C30, as the specification states it: a wait() call on a handle whose earlier
\* wait() raised raises the same failure.
C30_LaterWaitRaisesSameFailure_AsClaimed ==
    (lastWait.handle # 0 /\ lastWait.before # 0) => lastWait.raised = lastWait.before

\* C30, amended: a wait() call on a handle whose earlier wait() raised raises
\* too: the stored failure when the transport's wait of this call succeeded,
\* and the failure of this call, which takes the place of the stored one, when
\* it failed. The handle never goes back to holding no failure.
C30_LaterWaitRaisesStoredOrNewFailure ==
    (lastWait.handle # 0 /\ lastWait.before # 0) =>
        /\ lastWait.raised # 0
        /\ lastWait.raised = IF lastWait.failed THEN waits ELSE lastWait.before
        /\ handles[lastWait.handle].exception = lastWait.raised

\* C30, witness: a wait() call on a send handle whose waitSend failed, after a
\* wait() call on the same handle that had raised another failure.
C30_Witness ==
    /\ lastWait.handle # 0
    /\ handles[lastWait.handle].kind = "send"
    /\ lastWait.failed
    /\ lastWait.before # 0
    /\ lastWait.raised # lastWait.before

\* The last send, recv or recvAnysource call created no unbound buffer and
\* started no transfer.
NoTransportCall ==
    /\ transport.buffers = lastP2P.buffersBefore
    /\ transport.started = lastP2P.startedBefore

\* The last call created one unbound buffer and started one transfer, with the
\* tag it was given.
Accepted ==
    /\ lastP2P.thrown = "none"
    /\ lastP2P.utag = lastP2P.tag
    /\ transport.buffers = lastP2P.buffersBefore + 1
    /\ transport.started = lastP2P.startedBefore + 1

sourceRank(h) == handles[h].srcRank

\* C18: a receive that recvAnysource started admits exactly the ranks of
\* [0, size) as sources, and once wait() on its handle has returned without
\* raising, sourceRank() is the rank the transport received from, one of
\* [0, size).
C18_AnysourceResolvesSender ==
    \A h \in 1..Len(handles) :
        handles[h].op = "recvAnysource" =>
            /\ Range(handles[h].ranks) = 0..(GroupSize - 1)
            /\ (lastWait.handle = h /\ lastWait.raised = 0) =>
                   /\ sourceRank(h) \in 0..(GroupSize - 1)
                   /\ sourceRank(h) \in Range(handles[h].ranks)

\* C18, witness: wait() on a handle of recvAnysource has returned without
\* raising and sourceRank() is the last rank of the group.
C18_Witness ==
    \E h \in 1..Len(handles) :
        /\ handles[h].op = "recvAnysource"
        /\ lastWait.handle = h
        /\ lastWait.raised = 0
        /\ handles[h].completed
        /\ sourceRank(h) = GroupSize - 1

\* ------------------------------------------------------------------------
\* AsyncAllgatherWork, on every rank of the group
\* ------------------------------------------------------------------------

\* The number of elements of a dense tensor.
TensorNumel == 2

Elems == {0, 1}

Ranks == 0..(GroupSize - 1)

\* A dense tensor, by its elements.
DenseTensors == [0..(TensorNumel - 1) -> Elems]

ZeroTensor == [e \in 0..(TensorNumel - 1) |-> 0]

\* len(inputs), the same on every rank.
NumInputs == Cardinality(DOMAIN agInputs[0])

\* flattenDenseTensors(inputs): the elements of the tensors, one tensor after
\* the other.
flattenDenseTensors(tensors, n) ==
    [e \in 0..(n * TensorNumel - 1) |-> tensors[e \div TensorNumel][e % TensorNumel]]

\* gloo::allgather: the output buffer holds the ranks' input buffers, of len
\* elements each, in rank order.
glooAllgather(buffers, len) ==
    [e \in 0..(GroupSize * len - 1) |-> buffers[e \div len][e % len]]

\* flatOutputTensor[j], with flatOutputTensor = newLikeFlat(outputs[0]).
FlatRowZero(flat, j) == [e \in 0..(TensorNumel - 1) |-> flat[e]]

FlatRow(flat, j) == [e \in 0..(TensorNumel - 1) |-> flat[j * TensorNumel + e]]

\* AsyncAllgatherWork::allgather on rank r: outputs[i][j].copy_(flatOutputTensor[j])
\* for every i < outputs.size() and j < outputs[i].size().
allgatherOutputs(r) ==
    LET len == NumInputs * TensorNumel
        flatOutputTensor ==
            glooAllgather([k \in Ranks |-> flattenDenseTensors(agInputs[k], NumInputs)], len)
    IN [i \in 0..(NumInputs - 1) |->
           [j \in 0..(NumInputs * GroupSize - 1) |-> FlatRow(flatOutputTensor, j)]]

\* AsyncAllgatherWork::run on rank r. The transport's allgather returns or
\* throws; when it throws nothing is copied into the outputs.
AllgatherRun(r) ==
    /\ agOutputs[r].status = "queued"
    /\ \E ok \in BOOLEAN :
          agOutputs' = [agOutputs EXCEPT ![r] =
                           [status |-> "completed", failed |-> ~ok,
                            tensors |-> IF ok THEN allgatherOutputs(r) ELSE @.tensors]]
    /\ UNCHANGED <<poolVars, dispatchVars, p2pVars, agInputs, sparseVars, denseVars, cudaVars,
                   spmdVars, typedVars, waitVars, shapeVars, convVars>>

\* Every rank has called allgather with the same number of inputs and with
\* outputs[i] of inputs.size() * size tensors, as the entry point demands.
AllgatherInit ==
    /\ PoolInit
    /\ ncallers = 1
    /\ threads = 1
    /\ DispatchIdle
    /\ P2PIdle
    /\ SparseIdle
    /\ DenseIdle
    /\ CudaIdle
    /\ SpmdIdle
    /\ TypedIdle
    /\ WaitIdle
    /\ ShapeIdle
    /\ ConvIdle
    /\ \E n \in 1..MaxTensors :
          /\ agInputs \in [Ranks -> [0..(n - 1) -> DenseTensors]]
          /\ agOutputs = [r \in Ranks |->
                            [status |-> "queued", failed |-> FALSE,
                             tensors |-> [i \in 0..(n - 1) |->
                                            [j \in 0..(n * GroupSize - 1) |-> ZeroTensor]]]]

AllgatherNext == \E r \in Ranks : AllgatherRun(r)

AllgatherSpec == AllgatherInit /\ [][AllgatherNext]_vars

AllgatherDone(r) == agOutputs[r].status = "completed" /\ ~agOutputs[r].failed

\* C8, as stated: after a successful allgather, outputs[i][k] is the tensor that
\* rank k passed as inputs[i], for every input slot i and every rank k.
C8_OutputsBySlotAndRank_AsClaimed ==
    \A r \in Ranks :
        AllgatherDone(r) =>
            \A i \in 0..(NumInputs - 1) : \A k \in Ranks :
                agOutputs[r].tensors[i][k] = agInputs[k][i]

\* C8, amended: after a successful allgather with L inputs, every outputs[i]
\* holds the L * size gathered tensors: outputs[i][j] is the tensor that rank
\* j div L passed as inputs[j mod L].
C8_OutputsHoldFlatGather ==
    \A r \in Ranks :
        AllgatherDone(r) =>
            \A i \in 0..(NumInputs - 1) : \A j \in 0..(NumInputs * GroupSize - 1) :
                agOutputs[r].tensors[i][j] = agInputs[j \div NumInputs][j % NumInputs]

\* C8, witness: a rank has completed an allgather of two inputs per rank, where
\* the tensors that rank 0 passed differ from each other and from rank 1's.
C8_Witness ==
    \E r \in Ranks :
        /\ AllgatherDone(r)
        /\ NumInputs = 2
        /\ agInputs[0][0] # agInputs[0][1]
        /\ agInputs[0][1] # agInputs[1][0]
        /\ agInputs[1][1] # agInputs[0][0]

\* ------------------------------------------------------------------------
\* AsyncSparseAllreduceWork, on every rank of the group
\* ------------------------------------------------------------------------

\* The largest nnz of a tensor that a caller passes.
MaxNnz == 1

\* SparseTensorMetadata::dim
MetadataDim == 9

\* The sparse sizes are at [0:4] of the metadata, the dense sizes at [4:8].
MetadataDims == 4

SparseSizes == {<<2>>, <<3>>}

SparseIndices == {0, 1}

SparseValues == {1, 2}

\* What the part of an at::empty buffer that nothing has written may hold.
Garbage == {0, 5}

\* A sparse tensor of one sparse dimension and scalar values: its sizes, and its
\* indices with their values, in the order in which they are stored.
SparseTensors ==
    UNION {[sizes : SparseSizes, indices : [1..n -> SparseIndices],
            values : [1..n -> SparseValues]] : n \in 0..MaxNnz}

\* The lists a caller passes: one tensor or more, all of the same sizes.
SparseLists ==
    UNION {{l \in [1..n -> SparseTensors] : \A i \in 1..n : l[i].sizes = l[1].sizes} :
              n \in 1..MaxTensors}

RECURSIVE SumSeq(_)
SumSeq(s) == IF s = <<>> THEN 0 ELSE Head(s) + SumSeq(Tail(s))

RECURSIVE SortedSeq(_)
SortedSeq(S) ==
    IF S = {} THEN <<>>
    ELSE LET m == CHOOSE x \in S : \A y \in S : x <= y
         IN <<m>> \o SortedSeq(S \ {m})

\* The value of tensor t at coordinate c.
ValueAt(t, c) ==
    SumSeq([p \in 1..Len(t.indices) |-> IF t.indices[p] = c THEN t.values[p] ELSE 0])

\* input += other, on sparse tensors.
sparseAdd(input, other) ==
    [sizes |-> input.sizes,
     indices |-> input.indices \o other.indices,
     values |-> input.values \o other.values]

\* at::Tensor::coalesce(): unique sorted indices, the values of equal indices
\* summed.
coalesce(t) ==
    LET ix == SortedSeq(Range(t.indices))
    IN [sizes |-> t.sizes,
        indices |-> ix,
        values |-> [k \in 1..Len(ix) |-> ValueAt(t, ix[k])]]

\* for (i = 1; i < tensors.size(); i++) input += tensors[i];
RECURSIVE LocalSum(_, _)
LocalSum(tensors, n) ==
    IF n = 1 THEN tensors[1] ELSE sparseAdd(LocalSum(tensors, n - 1), tensors[n])

\* SparseTensorMetadata::populate_from_sparse_tensor, on a row of zeros.
populate_from_sparse_tensor(t) ==
    [i \in 0..(MetadataDim - 1) |->
        IF i < MetadataDims
        THEN (IF i < Len(t.sizes) THEN t.sizes[i + 1] ELSE 0)
        ELSE IF i < 2 * MetadataDims THEN 0
        ELSE Len(t.indices)]

RECURSIVE TakeSizes(_, _, _)
TakeSizes(data, i, end) ==
    IF i >= end \/ data[i] <= 0 THEN <<>>
    ELSE <<data[i]>> \o TakeSizes(data, i + 1, end)

\* sizes() without the loop over the dense sizes.
MetadataSizesSparseOnly(data) == TakeSizes(data, 0, MetadataDims)

\* SparseTensorMetadata::sizes
MetadataSizes(data) ==
    TakeSizes(data, 0, MetadataDims) \o TakeSizes(data, MetadataDims, 2 * MetadataDims)

\* SparseTensorMetadata::nnz
MetadataNnz(data) == data[MetadataDim - 1]

\* The coalesced local input of rank k.
LocalInput(k) == coalesce(LocalSum(spSubmitted[k], Len(spSubmitted[k])))

\* allgather_metadata: after the allgather, row k is what rank k populated.
allgather_metadata == [k \in Ranks |-> populate_from_sparse_tensor(LocalInput(k))]

\* max_nnz, as allgather_indices and allgather_values compute it.
MaxOfNnz(metadata) ==
    CHOOSE m \in {MetadataNnz(metadata[k]) : k \in Ranks} :
        \A k \in Ranks : MetadataNnz(metadata[k]) <= m

\* A row that holds the rank's entries behind the part nothing has written.
PaddedRowAtEnd(entries, max_nnz, g) ==
    [p \in 1..(max_nnz - Len(entries)) |-> g] \o entries

\* The row of rank k in the gathered buffer: the nnz entries that rank k copied
\* in, then what its at::empty buffer held.
PaddedRow(entries, max_nnz, g) ==
    entries \o [p \in 1..(max_nnz - Len(entries)) |-> g]

\* buffer.select(0, i).narrow(..., 0, metadata[i].nnz())
NarrowToMax(row, nnz) == row

Narrow(row, nnz) == SubSeq(row, 1, nnz)

\* AsyncSparseAllreduceWork::allreduce on rank r, when the sizes match and the
\* transport does not fail. gi and gv are what the buffers of indices and of
\* values held where nothing was written.
sparseAllreduce(r, gi, gv) ==
    LET metadata == allgather_metadata
        max_nnz == MaxOfNnz(metadata)
        indices == [k \in Ranks |->
                       Narrow(PaddedRow(LocalInput(k).indices, max_nnz, gi),
                              MetadataNnz(metadata[k]))]
        values == [k \in Ranks |->
                      Narrow(PaddedRow(LocalInput(k).values, max_nnz, gv),
                             MetadataNnz(metadata[k]))]
        gathered == [k \in 1..GroupSize |->
                        [sizes |-> LocalInput(r).sizes,
                         indices |-> indices[k - 1],
                         values |-> values[k - 1]]]
    IN coalesce(LocalSum(gathered, GroupSize))

\* AT_CHECK(actual == expected, "Sparse dimensions do not match")
SizesMatch(r) ==
    \A k \in Ranks :
        MetadataSizes(allgather_metadata[k]) = MetadataSizes(allgather_metadata[r])

\* AsyncSparseAllreduceWork::run on rank r. The local reduction works in place
\* on the caller's first tensor, which `input` shares; the result is cloned into
\* outputs, once per input. The run fails when the sizes do not match or the
\* transport throws.
SparseRun(r) ==
    /\ spWork[r].status = "queued"
    /\ spTensors' = [spTensors EXCEPT ![r][1] = LocalSum(spTensors[r], Len(spTensors[r]))]
    /\ \E ok \in BOOLEAN, gi \in Garbage, gv \in Garbage :
          spWork' = [spWork EXCEPT ![r] =
                        IF ok /\ SizesMatch(r)
                        THEN [status |-> "completed", failed |-> FALSE,
                              outputs |-> [i \in 1..Len(spSubmitted[r]) |->
                                              sparseAllreduce(r, gi, gv)]]
                        ELSE [status |-> "completed", failed |-> TRUE, outputs |-> <<>>]]
    /\ UNCHANGED <<poolVars, dispatchVars, p2pVars, allgatherVars, spSubmitted, denseVars, cudaVars,
                   spmdVars, typedVars, waitVars, shapeVars, convVars>>

\* Every rank has called allreduce with a list of sparse tensors.
SparseInit ==
    /\ PoolInit
    /\ ncallers = 1
    /\ threads = 1
    /\ DispatchIdle
    /\ P2PIdle
    /\ AllgatherIdle
    /\ DenseIdle
    /\ CudaIdle
    /\ SpmdIdle
    /\ TypedIdle
    /\ WaitIdle
    /\ ShapeIdle
    /\ ConvIdle
    /\ spSubmitted \in [Ranks -> SparseLists]
    /\ spTensors = spSubmitted
    /\ spWork = [r \in Ranks |-> [status |-> "queued", failed |-> FALSE, outputs |-> <<>>]]

SparseNext == \E r \in Ranks : SparseRun(r)

SparseSpec == SparseInit /\ [][SparseNext]_vars

SparseDone(r) == spWork[r].status = "completed" /\ ~spWork[r].failed

Coordinates(t) == 0..(t.sizes[1] - 1)

\* The sum, over all ranks and all the tensors they passed, of the values at
\* coordinate c.
TotalAt(c) ==
    SumSeq([k \in 1..GroupSize |->
               SumSeq([i \in 1..Len(spSubmitted[k - 1]) |->
                          ValueAt(spSubmitted[k - 1][i], c)])])

IsCoalesced(t) ==
    /\ Len(t.values) = Len(t.indices)
    /\ \A p \in 1..Len(t.indices) : t.indices[p] \in Coordinates(t)
    /\ \A p \in 1..(Len(t.indices) - 1) : t.indices[p] < t.indices[p + 1]

\* C9: the result of a successful sparse allreduce has, on every rank, the
\* sizes of the inputs, unique sorted indices and, at every coordinate, the sum
\* of the values of all the inputs of all the ranks at that coordinate.
C9_SparseResultIsSum ==
    \A r \in Ranks :
        SparseDone(r) =>
            \A i \in 1..Len(spWork[r].outputs) :
                LET out == spWork[r].outputs[i]
                IN /\ out.sizes = spSubmitted[r][1].sizes
                   /\ IsCoalesced(out)
                   /\ \A c \in Coordinates(out) : ValueAt(out, c) = TotalAt(c)

\* C9, witness: a sparse allreduce has succeeded on a rank, where one rank
\* passed only tensors of nnz = 0 and another passed two tensors with an entry
\* at the same coordinate.
C9_Witness ==
    \E r, k, l \in Ranks :
        /\ SparseDone(r)
        /\ Len(spWork[r].outputs) > 0
        /\ \A i \in 1..Len(spSubmitted[k]) : Len(spSubmitted[k][i].indices) = 0
        /\ Len(spSubmitted[l]) = 2
        /\ Len(spSubmitted[l][1].indices) = 1
        /\ spSubmitted[l][1].indices = spSubmitted[l][2].indices

\* Tensors of the same sizes and the same value at every coordinate.
SameTensor(a, b) ==
    /\ a.sizes = b.sizes
    /\ \A c \in Coordinates(a) : ValueAt(a, c) = ValueAt(b, c)

\* C10, as stated: when a sparse allreduce has succeeded, every tensor of the
\* list that the caller passed holds the result.
C10_InputsHoldResult_AsClaimed ==
    \A r \in Ranks :
        SparseDone(r) =>
            \A i \in 1..Len(spTensors[r]) :
                SameTensor(spTensors[r][i], spWork[r].outputs[i])

\* ------------------------------------------------------------------------
\* The dense collectives, on every rank of the group
\* ------------------------------------------------------------------------

\* The sizes of the dense tensors.
DenseSizes == {<<n>> : n \in 1..TensorNumel} \cup {<<1, TensorNumel>>}

RECURSIVE numel(_)
\* Tensor::numel(): the product of the sizes.
numel(sizes) == IF sizes = <<>> THEN 1 ELSE Head(sizes) * numel(Tail(sizes))

\* A dense tensor: its sizes and its elements in row-major order.
DenseOf(sizes) == {[sizes |-> sizes, data |-> d] : d \in [1..numel(sizes) -> Elems]}

\* The lists of 1..MaxTensors tensors of the same sizes.
DenseLists(sizes) == UNION {[1..n -> DenseOf(sizes)] : n \in 1..MaxTensors}

QueuedWork == [status |-> "queued", failed |-> FALSE]

DoneWork(ok) == [status |-> "completed", failed |-> ~ok]

\* A rank's work item has run and captured no failure.
DenseDone(r) == dcWork[r].status = "completed" /\ ~dcWork[r].failed

\* ------------------------------------------------------------------------
\* AsyncBroadcastWork
\* ------------------------------------------------------------------------

\* gloo::broadcast with setRoot(rootRank) and setOutput(tensor): on the root the
\* buffer is sent as it is, on the other ranks it receives the root's.
glooBroadcast(r, tensor, rootBuffer) ==
    IF r = dcOpts.rootRank THEN tensor ELSE [tensor EXCEPT !.data = rootBuffer.data]

\* The loop of run(): inputs[i].copy_(inputs[rootTensor]), i # rootTensor.
CopyToNonRootSkipped(inputs, rootTensor) == inputs

CopyToNonRoot(inputs, rootTensor) ==
    [i \in 1..Len(inputs) |->
        IF i - 1 = rootTensor THEN inputs[i]
        ELSE [inputs[i] EXCEPT !.data = inputs[rootTensor + 1].data]]

\* AsyncBroadcastWork::run on rank r. The transport's broadcast returns or
\* throws; when it throws the loop is not reached.
AsyncBroadcastWork_run(r) ==
    /\ dcWork[r].status = "queued"
    /\ \E ok \in BOOLEAN :
          /\ dcWork' = [dcWork EXCEPT ![r] = DoneWork(ok)]
          /\ dcInputs' =
                IF ok
                THEN LET t == dcOpts.rootTensor
                         received ==
                             [dcInputs[r] EXCEPT ![t + 1] =
                                 glooBroadcast(r, @, dcInputs[dcOpts.rootRank][t + 1])]
                     IN [dcInputs EXCEPT ![r] = CopyToNonRoot(received, t)]
                ELSE dcInputs
    /\ UNCHANGED <<poolVars, dispatchVars, p2pVars, allgatherVars, sparseVars,
                   dcOpts, dcSubmitted, dcOutputs, cudaVars,
                   spmdVars, typedVars, waitVars, shapeVars, convVars>>

\* Every rank has called broadcast with the same root rank and root tensor and
\* with a list of tensors of the same sizes, as the entry point demands:
\* 0 <= rootRank < size and 0 <= rootTensor < inputs.size() on every rank.
BroadcastInit ==
    /\ PoolInit
    /\ ncallers = 1
    /\ threads = 1
    /\ DispatchIdle
    /\ P2PIdle
    /\ AllgatherIdle
    /\ SparseIdle
    /\ CudaIdle
    /\ SpmdIdle
    /\ TypedIdle
    /\ WaitIdle
    /\ ShapeIdle
    /\ ConvIdle
    /\ \E sizes \in DenseSizes :
          /\ dcSubmitted \in [Ranks -> DenseLists(sizes)]
          /\ dcInputs = dcSubmitted
          /\ \E rootRank \in Ranks, rootTensor \in 0..(MaxTensors - 1) :
                /\ \A r \in Ranks : rootTensor < Len(dcSubmitted[r])
                /\ dcOpts = [rootRank |-> rootRank, rootTensor |-> rootTensor,
                             reduceOp |-> "SUM"]
    /\ dcOutputs = [r \in Ranks |-> <<>>]
    /\ dcWork = [r \in Ranks |-> QueuedWork]

BroadcastNext == \E r \in Ranks : AsyncBroadcastWork_run(r)

BroadcastSpec == BroadcastInit /\ [][BroadcastNext]_vars

\* C11: after a successful broadcast with root rank r and root tensor t, every
\* tensor in the inputs list of every rank holds the elements that inputs[t]
\* held on rank r when the call was made.
C11_BroadcastReachesEveryInput ==
    \A r \in Ranks :
        DenseDone(r) =>
            \A i \in 1..Len(dcInputs[r]) :
                /\ dcInputs[r][i].data =
                       dcSubmitted[dcOpts.rootRank][dcOpts.rootTensor + 1].data
                /\ dcInputs[r][i].sizes = dcSubmitted[r][i].sizes

\* C11, witness: a rank other than the root has completed a broadcast of a list
\* of MaxTensors tensors with the last one as root tensor, and none of the
\* tensors it passed held the root's elements.
C11_Witness ==
    \E r \in Ranks :
        /\ DenseDone(r)
        /\ r # dcOpts.rootRank
        /\ Len(dcSubmitted[r]) = MaxTensors
        /\ dcOpts.rootTensor = MaxTensors - 1
        /\ \A i \in 1..Len(dcSubmitted[r]) :
               dcSubmitted[r][i].data #
                   dcSubmitted[dcOpts.rootRank][dcOpts.rootTensor + 1].data

\* ------------------------------------------------------------------------
\* AsyncAllreduceWork
\* ------------------------------------------------------------------------

\* The element type is an unsigned integer; the model scales its width down, so
\* that the sum of the tensors of GroupSize ranks wraps.
ElemModulus == 4

\* toFunction<T>(op): gloo::sum<T>, gloo::product<T>, gloo::min<T>, gloo::max<T>
\* applied to one pair of elements.
toFunctionAlwaysSum(op, a, b) == (a + b) % ElemModulus

toFunction(op, a, b) ==
    CASE op = "SUM" -> (a + b) % ElemModulus
      [] op = "PRODUCT" -> (a * b) % ElemModulus
      [] op = "MIN" -> IF a < b THEN a ELSE b
      [] op = "MAX" -> IF a > b THEN a ELSE b

\* The reduce function applied to two buffers of the same length.
ReduceBuffers(op, x, y) == [e \in 1..Len(x) |-> toFunction(op, x[e], y[e])]

RECURSIVE ReduceAll(_, _)
\* The reduce function folded over a non-empty sequence of buffers.
ReduceAll(op, buffers) ==
    IF Len(buffers) = 1 THEN buffers[1]
    ELSE ReduceBuffers(op, ReduceAll(op, SubSeq(buffers, 1, Len(buffers) - 1)),
                       buffers[Len(buffers)])

\* The buffers of a list of tensors.
DataOf(tensors) == [i \in 1..Len(tensors) |-> tensors[i].data]

\* gloo::allreduce with setOutputs(tensors) and the reduce function of op: the
\* transport reduces the buffers of a rank's list, then the ranks' results, and
\* leaves the outcome in the first buffer of every rank. A rank contributes the
\* buffers it holds when its run() enters the transport, which are those its
\* caller passed in.
glooAllreduce(op, lists) ==
    ReduceAll(op, [k \in 1..Cardinality(DOMAIN lists) |->
                      ReduceAll(op, DataOf(lists[k - 1]))])

\* The loop of run(): inputs[i].copy_(inputs[0]), i >= 1.
CopyFirstToRestSkipped(inputs) == inputs

CopyFirstToRest(inputs) ==
    [i \in 1..Len(inputs) |-> [inputs[i] EXCEPT !.data = inputs[1].data]]

\* AsyncAllreduceWork::run on rank r. The transport's allreduce returns or
\* throws; when it throws the loop is not reached.
AsyncAllreduceWork_run(r) ==
    /\ dcWork[r].status = "queued"
    /\ \E ok \in BOOLEAN :
          /\ dcWork' = [dcWork EXCEPT ![r] = DoneWork(ok)]
          /\ dcInputs' =
                IF ok
                THEN LET reduced ==
                             [dcInputs[r] EXCEPT ![1].data =
                                 glooAllreduce(dcOpts.reduceOp, dcSubmitted)]
                     IN [dcInputs EXCEPT ![r] = CopyFirstToRest(reduced)]
                ELSE dcInputs
    /\ UNCHANGED <<poolVars, dispatchVars, p2pVars, allgatherVars, sparseVars,
                   dcOpts, dcSubmitted, dcOutputs, cudaVars,
                   spmdVars, typedVars, waitVars, shapeVars, convVars>>

ReduceOpsDense == {"SUM", "PRODUCT", "MIN", "MAX"}

\* Every rank has called allreduce with the same reduce op and with a non-empty
\* list of strided tensors of the same sizes, as the entry point demands.
AllreduceInit ==
    /\ PoolInit
    /\ ncallers = 1
    /\ threads = 1
    /\ DispatchIdle
    /\ P2PIdle
    /\ AllgatherIdle
    /\ SparseIdle
    /\ CudaIdle
    /\ SpmdIdle
    /\ TypedIdle
    /\ WaitIdle
    /\ ShapeIdle
    /\ ConvIdle
    /\ \E sizes \in DenseSizes :
          /\ dcSubmitted \in [Ranks -> DenseLists(sizes)]
          /\ dcInputs = dcSubmitted
    /\ \E op \in ReduceOpsDense :
          dcOpts = [rootRank |-> 0, rootTensor |-> 0, reduceOp |-> op]
    /\ dcOutputs = [r \in Ranks |-> <<>>]
    /\ dcWork = [r \in Ranks |-> QueuedWork]

AllreduceNext == \E r \in Ranks : AsyncAllreduceWork_run(r)

AllreduceSpec == AllreduceInit /\ [][AllreduceNext]_vars

\* The tensors that the ranks submitted: <<k, i>> is entry i of rank k's list.
SubmittedTensors == {p \in Ranks \X (1..MaxTensors) : p[2] <= Len(dcSubmitted[p[1]])}

ElemAt(p, e) == dcSubmitted[p[1]][p[2]].data[e]

RECURSIVE Power(_, _)
Power(v, n) == IF n = 0 THEN 1 ELSE (v * Power(v, n - 1)) % ElemModulus

RECURSIVE SumOver(_, _)
\* The sum of v times the number of submitted elements equal to v, over the
\* values v of a set.
SumOver(V, e) ==
    IF V = {} THEN 0
    ELSE LET v == CHOOSE x \in V : TRUE
         IN v * Cardinality({p \in SubmittedTensors : ElemAt(p, e) = v})
            + SumOver(V \ {v}, e)

RECURSIVE ProductOver(_, _)
ProductOver(V, e) ==
    IF V = {} THEN 1
    ELSE LET v == CHOOSE x \in V : TRUE
         IN (Power(v, Cardinality({p \in SubmittedTensors : ElemAt(p, e) = v}))
             * ProductOver(V \ {v}, e)) % ElemModulus

\* The reduction of all submitted tensors at position e, from the multiset of
\* the submitted elements.
Reduction(op, e) ==
    CASE op = "SUM" -> SumOver(Elems, e) % ElemModulus
      [] op = "PRODUCT" -> ProductOver(Elems, e)
      [] op = "MIN" -> CHOOSE v \in Elems :
                          /\ \E p \in SubmittedTensors : ElemAt(p, e) = v
                          /\ \A p \in SubmittedTensors : ElemAt(p, e) >= v
      [] op = "MAX" -> CHOOSE v \in Elems :
                          /\ \E p \in SubmittedTensors : ElemAt(p, e) = v
                          /\ \A p \in SubmittedTensors : ElemAt(p, e) <= v

\* C12: after a successful dense allreduce with SUM, PRODUCT, MIN or MAX on
\* integer tensors, every tensor of every rank's list holds the reduction of all
\* the tensors that all the ranks submitted (in the arithmetic of the element
\* type), so the entries after the first equal the first.
C12_AllreduceReachesEveryInput ==
    \A r \in Ranks :
        DenseDone(r) =>
            \A i \in 1..Len(dcInputs[r]) :
                /\ \A e \in 1..Len(dcInputs[r][i].data) :
                       dcInputs[r][i].data[e] = Reduction(dcOpts.reduceOp, e)
                /\ dcInputs[r][i].data = dcInputs[r][1].data
                /\ dcInputs[r][i].sizes = dcSubmitted[r][i].sizes

\* C12, witness: a rank has completed an allreduce with SUM of a list of
\* MaxTensors tensors, the sum of the first elements wrapped, and every tensor
\* of the rank's list has changed.
C12_Witness ==
    \E r \in Ranks :
        /\ DenseDone(r)
        /\ Len(dcSubmitted[r]) = MaxTensors
        /\ dcOpts.reduceOp = "SUM"
        /\ SumOver(Elems, 1) >= ElemModulus
        /\ \A i \in 1..Len(dcSubmitted[r]) : dcInputs[r][i].data # dcSubmitted[r][i].data

\* ------------------------------------------------------------------------
\* AsyncAllreduceCoalescedWork
\* ------------------------------------------------------------------------

\* The ranks of the group that runs the coalesced allreduce.
CoalescedRanks == DOMAIN dcSubmitted

RECURSIVE coalescedTensor(_)
\* flattenDenseTensors(tensors): one buffer with the elements of the tensors,
\* one tensor after the other.
coalescedTensor(tensors) ==
    IF tensors = <<>> THEN <<>>
    ELSE tensors[1].data \o coalescedTensor(Tail(tensors))

\* coalescedTensor.slice(0, offset, offset + tensorNumel)
sliceFromStart(buffer, offset, tensorNumel) == SubSeq(buffer, 1, tensorNumel)

slice(buffer, offset, tensorNumel) == SubSeq(buffer, offset + 1, offset + tensorNumel)

RECURSIVE offsetOf(_, _)
\* The value of offset when the loop reaches tensors[j]: the sum of numel() of
\* the tensors before it.
offsetOf(tensors, j) ==
    IF j = 1 THEN 0 ELSE offsetOf(tensors, j - 1) + numel(tensors[j - 1].sizes)

\* The loop of allreduceCoalesced: tensor.copy_(slice.view(tensorShape)).
separate(tensors, buffer) ==
    [j \in 1..Len(tensors) |->
        [sizes |-> tensors[j].sizes,
         data |-> slice(buffer, offsetOf(tensors, j), numel(tensors[j].sizes))]]

\* AsyncAllreduceCoalescedWork::run on rank r. The transport's allreduce
\* returns or throws; when it throws the tensors are not written.
AsyncAllreduceCoalescedWork_run(r) ==
    /\ dcWork[r].status = "queued"
    /\ \E ok \in BOOLEAN :
          /\ dcWork' = [dcWork EXCEPT ![r] = DoneWork(ok)]
          /\ dcInputs' =
                IF ok
                THEN LET allreduceInput ==
                             [k \in CoalescedRanks |->
                                 <<[sizes |-> <<Len(coalescedTensor(dcSubmitted[k]))>>,
                                    data |-> coalescedTensor(dcSubmitted[k])]>>]
                     IN [dcInputs EXCEPT ![r] =
                            separate(@, glooAllreduce(dcOpts.reduceOp, allreduceInput))]
                ELSE dcInputs
    /\ UNCHANGED <<poolVars, dispatchVars, p2pVars, allgatherVars, sparseVars,
                   dcOpts, dcSubmitted, dcOutputs, cudaVars,
                   spmdVars, typedVars, waitVars, shapeVars, convVars>>

\* The lists of tensors of the given sizes, one tensor for each.
DenseListsOf(sizes) ==
    {l \in [1..Len(sizes) -> UNION {DenseOf(z) : z \in DenseSizes}] :
        \A j \in 1..Len(sizes) : l[j].sizes = sizes[j]}

\* Every rank of a group of 1..GroupSize ranks has called allreduce_coalesced
\* with the same reduce op and with a non-empty list of strided tensors, whose
\* sizes may differ within the list and are the same on every rank.
CoalescedInit ==
    /\ PoolInit
    /\ ncallers = 1
    /\ threads = 1
    /\ DispatchIdle
    /\ P2PIdle
    /\ AllgatherIdle
    /\ SparseIdle
    /\ CudaIdle
    /\ SpmdIdle
    /\ TypedIdle
    /\ WaitIdle
    /\ ShapeIdle
    /\ ConvIdle
    /\ \E size \in 1..GroupSize, n \in 1..MaxTensors :
          \E sizes \in [1..n -> DenseSizes] :
              /\ dcSubmitted \in [0..(size - 1) -> DenseListsOf(sizes)]
              /\ dcInputs = dcSubmitted
              /\ dcOutputs = [r \in 0..(size - 1) |-> <<>>]
              /\ dcWork = [r \in 0..(size - 1) |-> QueuedWork]
    /\ \E op \in ReduceOpsDense :
          dcOpts = [rootRank |-> 0, rootTensor |-> 0, reduceOp |-> op]

CoalescedNext == \E r \in CoalescedRanks : AsyncAllreduceCoalescedWork_run(r)

CoalescedSpec == CoalescedInit /\ [][CoalescedNext]_vars

\* The element-wise reduction across the ranks of the tensors at position j of
\* the lists.
AcrossRanks(op, j) ==
    ReduceAll(op, [k \in 1..Cardinality(CoalescedRanks) |-> dcSubmitted[k - 1][j].data])

\* C13: after a successful coalesced allreduce every tensor of a rank's list
\* holds, in its own sizes, the element-wise reduction across the ranks of the
\* tensors at the same position of the lists; with a single rank every tensor
\* is as it was.
C13_CoalescedReducesByPosition ==
    \A r \in CoalescedRanks :
        DenseDone(r) =>
            /\ \A j \in 1..Len(dcInputs[r]) :
                   /\ dcInputs[r][j].data = AcrossRanks(dcOpts.reduceOp, j)
                   /\ dcInputs[r][j].sizes = dcSubmitted[r][j].sizes
            /\ Cardinality(CoalescedRanks) = 1 => dcInputs[r] = dcSubmitted[r]

\* C13, witness: a rank of a group of GroupSize ranks has completed a coalesced
\* allreduce of MaxTensors tensors, the last of which differs in sizes from the
\* first and has changed.
C13_Witness ==
    \E r \in CoalescedRanks :
        /\ DenseDone(r)
        /\ Cardinality(CoalescedRanks) = GroupSize
        /\ Len(dcSubmitted[r]) = MaxTensors
        /\ dcSubmitted[r][MaxTensors].sizes # dcSubmitted[r][1].sizes
        /\ dcInputs[r][MaxTensors].data # dcSubmitted[r][MaxTensors].data

\* ------------------------------------------------------------------------
\* AsyncGatherWork
\* ------------------------------------------------------------------------

RECURSIVE glooGather(_, _)
\* gloo::gather with setInput(inputs[0]) on every rank: the root's output
\* buffer holds the input buffers of ranks 0..(n - 1), in rank order.
glooGather(lists, n) ==
    IF n = 0 THEN <<>> ELSE glooGather(lists, n - 1) \o lists[n - 1][1].data

\* flatOutputTensor[i], with flatOutputTensor = newLikeFlat(outputs[0]): row i
\* of the buffer, of rowNumel elements.
flatOutputRowFirst(buffer, i, rowNumel) == SubSeq(buffer, 1, rowNumel)

flatOutputRow(buffer, i, rowNumel) == SubSeq(buffer, i * rowNumel + 1, (i + 1) * rowNumel)

\* The loop of gather() on the root: outputs[0][i].copy_(flatOutputTensor[i]).
unflatten(outputs, buffer) ==
    [outputs EXCEPT ![1] =
        [i \in 1..Len(outputs[1]) |->
            [outputs[1][i] EXCEPT
                !.data = flatOutputRow(buffer, i - 1, numel(outputs[1][i].sizes))]]]

\* AsyncGatherWork::run on rank r. The transport's gather returns or throws;
\* when it throws the outputs are not written.
AsyncGatherWork_run(r) ==
    /\ dcWork[r].status = "queued"
    /\ \E ok \in BOOLEAN :
          /\ dcWork' = [dcWork EXCEPT ![r] = DoneWork(ok)]
          /\ dcOutputs' =
                IF ok /\ r = dcOpts.rootRank
                THEN [dcOutputs EXCEPT ![r] = unflatten(@, glooGather(dcInputs, GroupSize))]
                ELSE dcOutputs
    /\ UNCHANGED <<poolVars, dispatchVars, p2pVars, allgatherVars, sparseVars,
                   dcOpts, dcSubmitted, dcInputs, cudaVars,
                   spmdVars, typedVars, waitVars, shapeVars, convVars>>

\* A tensor of the given sizes with every element v.
full(sizes, v) == [sizes |-> sizes, data |-> [e \in 1..numel(sizes) |-> v]]

\* Every rank has called gather with the same root rank and a single input of
\* the same sizes, as the entry point demands: on the root outputs holds one
\* list of size tensors of the type and sizes of the input, on the other ranks
\* it is empty.
GatherInit ==
    /\ PoolInit
    /\ ncallers = 1
    /\ threads = 1
    /\ DispatchIdle
    /\ P2PIdle
    /\ AllgatherIdle
    /\ SparseIdle
    /\ CudaIdle
    /\ SpmdIdle
    /\ TypedIdle
    /\ WaitIdle
    /\ ShapeIdle
    /\ ConvIdle
    /\ \E sizes \in DenseSizes, rootRank \in Ranks, v \in Elems :
          /\ dcSubmitted \in [Ranks -> [1..1 -> DenseOf(sizes)]]
          /\ dcOpts = [rootRank |-> rootRank, rootTensor |-> 0, reduceOp |-> "SUM"]
          /\ dcOutputs = [r \in Ranks |->
                            IF r = rootRank
                            THEN <<[i \in 1..GroupSize |-> full(sizes, v)]>>
                            ELSE <<>>]
    /\ dcInputs = dcSubmitted
    /\ dcWork = [r \in Ranks |-> QueuedWork]

GatherNext == \E r \in Ranks : AsyncGatherWork_run(r)

GatherSpec == GatherInit /\ [][GatherNext]_vars

\* C14: after a successful gather with root rank r, outputs[0][i] on rank r
\* holds the single input that rank i submitted, for every rank i; on every
\* other rank the outputs list is empty, before and after the work item runs.
C14_GatherCollectsOnRoot ==
    \A r \in Ranks :
        IF r = dcOpts.rootRank
        THEN DenseDone(r) =>
                 /\ Len(dcOutputs[r]) = 1
                 /\ Len(dcOutputs[r][1]) = GroupSize
                 /\ \A i \in Ranks : dcOutputs[r][1][i + 1] = dcSubmitted[i][1]
        ELSE dcOutputs[r] = <<>>

\* C14, witness: every rank has completed a gather whose root is the last rank
\* and in which no two ranks submitted the same input.
C14_Witness ==
    /\ \A r \in Ranks : DenseDone(r)
    /\ dcOpts.rootRank = GroupSize - 1
    /\ \A i, k \in Ranks : i # k => dcSubmitted[i][1] # dcSubmitted[k][1]

\* ---------------------------------------------------------------------------
\* Accelerator variants: pool streams, events and the caller's streams.
\* A stream is the sequence of the operations enqueued on it; an event holds
\* what it captured when it was last recorded: a stream and the number of
\* operations that stream held at that moment.
\* ---------------------------------------------------------------------------

\* Devices of the machine.
MaxDevices == 2

\* Streams of one device's pool.
PoolSize == 2

\* Kernels the caller launches in one behaviour.
MaxKernels == 1

Devices == 1..MaxDevices

CudaClasses == {"AsyncAllreduceCUDAWork", "AsyncAllgatherCUDAWork"}

DefaultStream(d) == <<"default", d, 0>>

PoolStreams(d) == {<<"pool", d, k>> : k \in 1..PoolSize}

StreamsOf(d) == {DefaultStream(d)} \cup PoolStreams(d)

\* The streams the caller makes current: the default stream of the device, or
\* a stream it took from the pool, which a work item may be handed as well.
CallerStreams(d) == {DefaultStream(d), <<"pool", d, 1>>}

StreamIds == UNION {StreamsOf(d) : d \in Devices}

NoCapture == [stream |-> <<"none", 0, 0>>, pos |-> 0]

\* The events of a work item: events[i] of the allreduce, inputEvents[i] and
\* outputEvents[i] of the allgather.
EventIds == {<<side, i>> : side \in {"in", "out"}, i \in 1..MaxTensors}

StreamOp(op, i, j, ev, after) == [op |-> op, i |-> i, j |-> j, ev |-> ev, after |-> after]

\* CUDAEvent::record(stream): the event captures the work the stream holds.
record(st, stream) == [stream |-> stream, pos |-> Len(st[stream])]

\* CUDAEvent::block(stream): the stream waits for what the event captured.
block(st, ev, stream) ==
    [st EXCEPT ![stream] = Append(@, StreamOp("wait", 0, 0, ev, FALSE))]

\* A copy or a kernel enqueued on a stream.
EnqueueOn(st, stream, o) == [st EXCEPT ![stream] = Append(@, o)]

\* initializeStreamsEvents, both overloads: for each tensor (or each nested
\* list) in turn, the event is recorded on the current stream of its device, a
\* stream is taken from that device's pool, and the pool stream waits for the
\* event.  g is [st, ev, streams]; pick[i] is the pool stream handed out.
RECURSIVE initializeStreamsEvents(_, _, _, _, _)
initializeStreamsEvents(g, side, devices, pick, i) ==
    IF i > Len(devices)
    THEN g
    ELSE LET d == devices[i]
             e == record(g.st, cuCurrent[d])
             stream == <<"pool", d, pick[<<side, i>>]>>
         IN  initializeStreamsEvents(
                 [st |-> block(g.st, e, stream),
                  ev |-> [g.ev EXCEPT ![<<side, i>>] = e],
                  streams |-> [g.streams EXCEPT ![<<side, i>>] = stream]],
                 side, devices, pick, i + 1)

\* The constructors' loop that starts the copy of every input to pinned host
\* memory on the input's pool stream.
RECURSIVE copyToPinned(_, _, _, _)
copyToPinned(g, side, n, i) ==
    IF i > n
    THEN g
    ELSE copyToPinned(
             [g EXCEPT !.st = EnqueueOn(g.st, g.streams[<<side, i>>],
                                      StreamOp("copy_d2h", i, 0, NoCapture, FALSE))],
             side, n, i + 1)

\* The copies of the tensors of one output list back to the device, enqueued
\* on the list's pool stream.
RECURSIVE copiesBack(_, _, _, _, _)
copiesBack(st, stream, i, m, j) ==
    IF j > m
    THEN st
    ELSE copiesBack(EnqueueOn(st, stream, StreamOp("copy_h2d", i, j, NoCapture, FALSE)),
                    stream, i, m, j + 1)

copyBackOnCurrent(g, i, m) ==
    LET stream == cuCurrent[cuWork.outDevice[i]]
        copied == copiesBack(g.st, stream, i, m, 1)
    IN  [g EXCEPT !.st = copied,
                  !.ev = [g.ev EXCEPT ![<<"out", i>>] = record(copied, stream)]]

copyBackRecordFirst(g, i, m) ==
    LET stream == g.streams[<<"out", i>>]
    IN  [g EXCEPT !.st = copiesBack(g.st, stream, i, m, 1),
                  !.ev = [g.ev EXCEPT ![<<"out", i>>] = record(g.st, stream)]]

\* One round of run()'s last loop: the copies of output i, then the event is
\* recorded on the pool stream.
copyBack(g, i, m) ==
    LET stream == g.streams[<<"out", i>>]
        copied == copiesBack(g.st, stream, i, m, 1)
    IN  [g EXCEPT !.st = copied,
                  !.ev = [g.ev EXCEPT ![<<"out", i>>] = record(copied, stream)]]

\* run()'s last loop: every output in turn.
RECURSIVE copyBackAll(_, _, _, _)
copyBackAll(g, n, m, i) ==
    IF i > n THEN g ELSE copyBackAll(copyBack(g, i, m), n, m, i + 1)

\* synchronize(): the current stream of each output's device waits for the
\* output's event.
RECURSIVE synchronize(_, _, _)
synchronize(st, devices, i) ==
    IF i > Len(devices)
    THEN st
    ELSE synchronize(block(st, cuEvents[<<"out", i>>], cuCurrent[devices[i]]),
                     devices, i + 1)

CudaState == [st |-> cuStreams, ev |-> cuEvents, streams |-> cuWork.streams]

OtherGroupsUnchanged ==
    UNCHANGED <<poolVars, dispatchVars, p2pVars, allgatherVars, sparseVars, denseVars,
                spmdVars, typedVars, waitVars, shapeVars, convVars>>

\* The constructor of AsyncAllreduceCUDAWork: one stream and one event per
\* input, which is also the output.
AsyncAllreduceCUDAWork_ctor ==
    /\ cuWork.pc = "dispatching"
    /\ cuWork.class = "AsyncAllreduceCUDAWork"
    /\ \E pick \in [EventIds -> 1..PoolSize] :
           LET g == copyToPinned(
                        initializeStreamsEvents(CudaState, "out", cuWork.outDevice, pick, 1),
                        "out", cuWork.n, 1)
           IN  /\ cuStreams' = g.st
               /\ cuEvents' = g.ev
               /\ cuWork' = [cuWork EXCEPT !.pc = "constructed", !.streams = g.streams]
    /\ UNCHANGED cuCurrent
    /\ OtherGroupsUnchanged

\* The constructor of AsyncAllgatherCUDAWork: streams and events for the
\* inputs, then for the nested output lists, then the copies of the inputs.
AsyncAllgatherCUDAWork_ctor ==
    /\ cuWork.pc = "dispatching"
    /\ cuWork.class = "AsyncAllgatherCUDAWork"
    /\ \E pick \in [EventIds -> 1..PoolSize] :
           LET g1 == initializeStreamsEvents(CudaState, "in", cuWork.inDevice, pick, 1)
               g2 == initializeStreamsEvents(g1, "out", cuWork.outDevice, pick, 1)
               g == copyToPinned(g2, "in", cuWork.n, 1)
           IN  /\ cuStreams' = g.st
               /\ cuEvents' = g.ev
               /\ cuWork' = [cuWork EXCEPT !.pc = "constructed", !.streams = g.streams]
    /\ UNCHANGED cuCurrent
    /\ OtherGroupsUnchanged

\* run() on the worker thread.  It waits on the host for the pool streams,
\* runs the collective on the pinned tensors, and starts the copies back; a
\* failure of the stream synchronisation or of the collective leaves run()
\* before any copy back.
CudaRun(ok) ==
    /\ cuWork.pc = "constructed"
    /\ IF ok
       THEN LET g == copyBackAll(CudaState, Len(cuWork.outDevice), cuWork.m, 1)
            IN  /\ cuStreams' = g.st
                /\ cuEvents' = g.ev
                /\ cuWork' = [cuWork EXCEPT !.pc = "completed"]
       ELSE /\ cuWork' = [cuWork EXCEPT !.pc = "failed"]
            /\ UNCHANGED <<cuStreams, cuEvents>>
    /\ UNCHANGED cuCurrent
    /\ OtherGroupsUnchanged

\* wait() on the caller's thread once the work item has completed: it raises
\* the captured failure, or calls synchronize() and returns.
CudaWait ==
    /\ cuWork.pc \in {"completed", "failed"}
    /\ IF cuWork.pc = "completed"
       THEN /\ cuStreams' = synchronize(cuStreams, cuWork.outDevice, 1)
            /\ cuWork' = [cuWork EXCEPT !.pc = "waited", !.waitStream = cuCurrent]
       ELSE /\ cuWork' = [cuWork EXCEPT !.pc = "raised"]
            /\ UNCHANGED cuStreams
    /\ UNCHANGED <<cuCurrent, cuEvents>>
    /\ OtherGroupsUnchanged

\* The caller makes another stream of a device its current stream.
setCurrentCUDAStream(d, stream) ==
    /\ cuCurrent[d] # stream
    /\ cuCurrent' = [cuCurrent EXCEPT ![d] = stream]
    /\ UNCHANGED <<cuWork, cuStreams, cuEvents>>
    /\ OtherGroupsUnchanged

\* The kernels the caller has launched so far.
Kernels ==
    Cardinality(UNION {{<<stream, p>> : p \in {q \in DOMAIN cuStreams[stream] :
                                                  cuStreams[stream][q].op = "kernel"}} :
                       stream \in StreamIds})

\* The caller launches a kernel on its current stream of a device.
LaunchKernel(d) ==
    /\ Kernels < MaxKernels
    /\ cuStreams' = EnqueueOn(cuStreams, cuCurrent[d],
                            StreamOp("kernel", 0, 0, NoCapture, cuWork.pc = "waited"))
    /\ UNCHANGED <<cuWork, cuCurrent, cuEvents>>
    /\ OtherGroupsUnchanged

CudaInit ==
    /\ PoolInit
    /\ ncallers = 1
    /\ threads = 1
    /\ DispatchIdle
    /\ P2PIdle
    /\ AllgatherIdle
    /\ SparseIdle
    /\ DenseIdle
    /\ SpmdIdle
    /\ TypedIdle
    /\ WaitIdle
    /\ ShapeIdle
    /\ ConvIdle
    /\ cuCurrent \in [Devices -> StreamIds]
    /\ \A d \in Devices : cuCurrent[d] \in CallerStreams(d)
    /\ cuStreams = [stream \in StreamIds |-> <<>>]
    /\ cuEvents = [e \in EventIds |-> NoCapture]
    /\ \E class \in CudaClasses, n \in 1..MaxTensors :
       \E inDevice, outDevice \in [1..n -> Devices] :
           /\ class = "AsyncAllreduceCUDAWork" => inDevice = outDevice
           /\ cuWork = [class |-> class,
                        pc |-> "dispatching",
                        n |-> n,
                        m |-> IF class = "AsyncAllreduceCUDAWork" THEN 1 ELSE n * GroupSize,
                        inDevice |-> inDevice,
                        outDevice |-> outDevice,
                        streams |-> [e \in EventIds |-> <<"none", 0, 0>>],
                        waitStream |-> [d \in Devices |-> <<"none", 0, 0>>]]

CudaNext ==
    \/ AsyncAllreduceCUDAWork_ctor
    \/ AsyncAllgatherCUDAWork_ctor
    \/ \E ok \in BOOLEAN : CudaRun(ok)
    \/ CudaWait
    \/ \E d \in Devices : \E stream \in CallerStreams(d) : setCurrentCUDAStream(d, stream)
    \/ \E d \in Devices : LaunchKernel(d)

CudaSpec == CudaInit /\ [][CudaNext]_vars

\* The pool streams the work item was handed.
HandedStreams == {cuWork.streams[e] : e \in EventIds} \ {<<"none", 0, 0>>}

\* The events that run() recorded after the copies back.
OutEvents == {cuEvents[<<"out", i>>] : i \in 1..Len(cuWork.outDevice)}

OrderedBefore(c, q, s, p) ==
    \/ c = s /\ q < p
    \/ \E w \in 1..(p - 1) :
           /\ cuStreams[s][w].op = "wait"
           /\ cuStreams[s][w].ev.stream = c
           /\ cuStreams[s][w].ev.pos >= q

\* The copy of the result into tensor j of output i has been enqueued, and it
\* is ordered before the operation at position p of stream s.
CopyBackOrderedBefore(i, j, s, p) ==
    \E c \in StreamIds : \E q \in DOMAIN cuStreams[c] :
        /\ cuStreams[c][q].op = "copy_h2d"
        /\ cuStreams[c][q].i = i
        /\ cuStreams[c][q].j = j
        /\ OrderedBefore(c, q, s, p)

\* C19: once wait() has returned without error, every kernel launched
\* afterwards on the stream that was the caller's current stream of an
\* output's device is ordered after the copy of the result into that output:
\* the stream waits for the event recorded after the copy.
C19_KernelsAfterWaitOrderedAfterCopyBack ==
    cuWork # <<>> /\ cuWork.pc = "waited" =>
        \A i \in 1..Len(cuWork.outDevice) :
            LET s == cuWork.waitStream[cuWork.outDevice[i]]
            IN  \A p \in DOMAIN cuStreams[s] :
                    cuStreams[s][p].op = "kernel" /\ cuStreams[s][p].after =>
                        \A j \in 1..cuWork.m : CopyBackOrderedBefore(i, j, s, p)

\* C19, witness: an allgather with outputs on two devices has been waited for
\* without error, and a kernel launched afterwards sits on the caller's
\* stream of the second output's device, which is not the pool stream the
\* copies of that output were enqueued on.
C19_Witness ==
    /\ cuWork # <<>>
    /\ cuWork.pc = "waited"
    /\ cuWork.class = "AsyncAllgatherCUDAWork"
    /\ cuWork.n = 2
    /\ cuWork.outDevice[1] # cuWork.outDevice[2]
    /\ LET s == cuWork.waitStream[cuWork.outDevice[2]]
       IN  /\ s # cuWork.streams[<<"out", 2>>]
           /\ \E p \in DOMAIN cuStreams[s] :
                  cuStreams[s][p].op = "kernel" /\ cuStreams[s][p].after

\* ---------------------------------------------------------------------------
\* Two ranks that make the same sequence of dispatch calls.
\* ---------------------------------------------------------------------------

\* The longest program.
MaxProgram == 3

\* The most contexts of a process, options.devices.size().
MaxContexts == 2

MkldnnTensor == [DefaultTensor EXCEPT !.layout = "mkldnn"]

\* The calls a program is made of: allreduce of a strided list, of an Mkldnn
\* list and of the empty list, gather with the output list a root passes and
\* with the one a non-root passes, and broadcast.
SpmdCalls ==
    {[op |-> "allreduce", inputs |-> inputs, outputs |-> <<>>, rootRank |-> 0] :
        inputs \in {<<DefaultTensor>>, <<MkldnnTensor>>, <<>>}}
    \cup {[op |-> "gather", inputs |-> <<DefaultTensor>>, outputs |-> outputs, rootRank |-> 0] :
             outputs \in {<<>>, <<[i \in 1..GroupSize |-> DefaultTensor]>>}}
    \cup {[op |-> "broadcast", inputs |-> <<DefaultTensor>>, outputs |-> <<>>, rootRank |-> 0]}

Programs == UNION {[1..n -> SpmdCalls] : n \in 1..MaxProgram}

\* The error the entry point finds before nextTag(), on the rank that makes
\* the call.
EarlyError(c) ==
    CASE c.op = "allreduce" -> allreduceCheck(c.inputs, "SUM")
      [] c.op = "gather" -> gatherCheck(c.outputs, c.inputs, c.rootRank)
      [] c.op = "broadcast" -> broadcastCheck(c.inputs, c.rootRank, 0)

\* The error the entry point finds after nextTag().
LateError(c) == IF c.op = "allreduce" THEN allreduceLayout(c.inputs) ELSE "none"

\* getContext(tag): the index of contexts_[tag % contexts_.size()].
getContext(tag, n) == tag % n

\* The rank whose turn it is makes its next call of the program: the checks,
\* then nextTag() and getContext(tag), then the work item is built and
\* enqueued.  Any rank has the next turn.
SpmdCall ==
    /\ smPos[rank] < Len(smProgram)
    /\ LET c == smProgram[smPos[rank] + 1]
           t == nextTag(smCounter[rank])
       IN  /\ smPos' = [smPos EXCEPT ![rank] = @ + 1]
           /\ IF EarlyError(c) # "none"
              THEN UNCHANGED <<smCounter, smLog>>
              ELSE /\ smCounter' = [smCounter EXCEPT ![rank] = t.counter]
                   /\ IF LateError(c) # "none"
                      THEN UNCHANGED smLog
                      ELSE smLog' = [smLog EXCEPT ![rank] =
                                        Append(@, [tag |-> t.tag,
                                                   context |-> getContext(t.tag, smContexts),
                                                   call |-> smPos[rank] + 1])]
    /\ rank' \in Ranks
    /\ UNCHANGED <<smProgram, smContexts>>
    /\ UNCHANGED <<poolVars, useCuda, call, p2pVars, allgatherVars, sparseVars, denseVars,
                   cudaVars, typedVars, waitVars, shapeVars, convVars>>

SpmdInit ==
    /\ PoolInit
    /\ ncallers = 1
    /\ threads = 1
    /\ useCuda \in BOOLEAN
    /\ rank \in Ranks
    /\ call = NoCall
    /\ P2PIdle
    /\ AllgatherIdle
    /\ SparseIdle
    /\ DenseIdle
    /\ CudaIdle
    /\ TypedIdle
    /\ WaitIdle
    /\ ShapeIdle
    /\ ConvIdle
    /\ smProgram \in Programs
    /\ smContexts \in 1..MaxContexts
    /\ smPos = [r \in Ranks |-> 0]
    /\ smCounter = [r \in Ranks |-> 0]
    /\ smLog = [r \in Ranks |-> <<>>]

SpmdNext == SpmdCall

SpmdSpec == SpmdInit /\ [][SpmdNext]_vars

\* C20, as claimed: two ranks with the same number of contexts make the same
\* sequence of dispatch calls; for every k, the k-th submission of one rank
\* and the k-th submission of the other have the same tag and the same
\* context index.
C20_SameTagAndContext_AsClaimed ==
    \A r1, r2 \in Ranks :
        \A k \in 1..Len(smLog[r1]) :
            k <= Len(smLog[r2]) =>
                /\ smLog[r1][k].tag = smLog[r2][k].tag
                /\ smLog[r1][k].context = smLog[r2][k].context

\* ---------------------------------------------------------------------------
\* The worker pool: failures inside run(), the slots, and leaving the loop.
\* ---------------------------------------------------------------------------

\* The steps of worker thread w.
WorkerStep(w) ==
    /\ w \in Workers
    /\ \/ WorkerLoop(w)
       \/ NotifyConsumed(w)
       \/ RunCollective(w)
       \/ BarrierWaitPrior(w)
       \/ BarrierIssue(w)
       \/ WorkerRelock(w)

\* The steps by which caller thread c finishes enqueue() once it is in it.
EnqueueStep(c) == c \in Callers /\ (Enqueue(c) \/ NotifyProduced(c))

\* One caller and up to two workers.
FairInit ==
    /\ PoolInit
    /\ ncallers = 1
    /\ threads <= MaxDtorWorkers
    /\ DispatchIdle
    /\ P2PIdle
    /\ AllgatherIdle
    /\ SparseIdle
    /\ DenseIdle
    /\ CudaIdle
    /\ SpmdIdle
    /\ TypedIdle
    /\ WaitIdle
    /\ ShapeIdle
    /\ ConvIdle

\* Every thread that can take a step is scheduled in the end: a worker goes
\* on in runLoop, a caller inside enqueue() leaves it.
FairSpec ==
    /\ FairInit
    /\ [][Next]_vars
    /\ \A w \in 1..MaxWorkers : WF_vars(WorkerStep(w))
    /\ \A c \in 1..MaxCallers : WF_vars(EnqueueStep(c))

\* The item's own operation raised the failure the item holds.
OwnFailure(i) == work[i].failed /\ work[i].issued

\* The barrier item b holds the failure that wait() on a failed item of its
\* priorWork re-raised inside its run(); that item may be a barrier that
\* failed in the same way.
PriorFailure(b) ==
    /\ work[b].kind = "barrier"
    /\ work[b].failed
    /\ ~work[b].issued
    /\ work[b].pos <= Len(work[b].prior)
    /\ work[b].prior[work[b].pos] # 0
    /\ work[work[b].prior[work[b].pos]].failed

\* C21, as claimed: a failure is held by the item whose operation raised it
\* and by no other item, so that it surfaces through wait() on that item
\* only.
C21_FailureInFailedItemOnly_AsClaimed ==
    \A i \in Ids : work[i].failed => OwnFailure(i)

\* What holds in every state after a failure: no worker has left its loop, a
\* slot holds a completed item only until its worker has the lock again, and a
\* failure is held by the item whose operation raised it or by a barrier item
\* that was waiting for that item.
FailureIsContained ==
    /\ \A w \in Workers : wpc[w] # "exited"
    /\ \A w \in Workers :
           (workInProgress[w] # 0 /\ Completed(workInProgress[w])) => wpc[w] = "relock"
    /\ \A i \in Ids : work[i].failed => (OwnFailure(i) \/ PriorFailure(i))
    /\ \A i \in Ids : WaitRaises(work[i]) => work[i].failed

\* C21, amended: a failure raised inside run() is captured into the item
\* that ran, and into a barrier item whose run() waits for that item; the
\* worker clears its slot and stays in its loop, and every item that is in the
\* queue is executed to completion, whatever failed before it.
C21_FailureCapturedWorkerGoesOn ==
    /\ []FailureIsContained
    /\ \A i \in Ids : (work[i].status = "queued") ~> Completed(i)

\* C21, witness: the first item failed in its own run(), and an item enqueued
\* after it has completed without a failure.
C21_Witness ==
    /\ Len(enqOrder) >= 2
    /\ OwnFailure(enqOrder[1])
    /\ Completed(enqOrder[2])
    /\ ~work[enqOrder[2]].failed

\* The item has been popped by a worker and its execute() is not over.
Executing(i) == work[i].status = "dequeued"

\* C24: at most T items are executing, workInProgress_ has T slots, each
\* executing item is in one slot and not in the queue, and every item that was
\* enqueued and has not been popped is in the queue.
C24_AtMostTExecuting ==
    /\ Cardinality({i \in Ids : Executing(i)}) <= threads
    /\ DOMAIN workInProgress = 1..threads
    /\ \A i \in Ids :
           Executing(i) =>
               /\ Cardinality({w \in Workers : workInProgress[w] = i}) = 1
               /\ i \notin Range(workQueue)
    /\ \A i \in Ids :
           (Enqueued(i) /\ ~Dequeued(i)) =>
               /\ i \in Range(workQueue)
               /\ \A w \in Workers : workInProgress[w] # i

\* C24, witness: with three workers, two items are executing while a third is
\* in the queue.
C24_Witness ==
    /\ threads = 3
    /\ Cardinality({i \in Ids : Executing(i)}) = 2
    /\ Len(workQueue) = 1

\* C27, as claimed: a worker leaves its loop only when stop_ is set and the
\* queue is empty, also when enqueue() races with the destructor.
C27_ExitOnlyWhenDrained_AsClaimed ==
    [][\A w \in Workers :
           (wpc[w] # "exited" /\ wpc'[w] = "exited") => (stop /\ workQueue = <<>>)]_vars


\* ---------------------------------------------------------------------------
\* The scalar type and the reduce op of a dense allreduce or reduce.
\* ---------------------------------------------------------------------------

\* The scalar types a caller's tensor may have: the seven of GENERATE_ALL_TYPES
\* and two others.
SupportedScalarTypes == {"Float", "Double", "Half", "Char", "Byte", "Int", "Long"}

TypedScalarTypes == SupportedScalarTypes \cup {"Short", "Bool"}

\* enum class ReduceOp
TypedReduceOps == {"SUM", "PRODUCT", "MIN", "MAX", "UNUSED"}

TypedKinds == {"allreduce", "reduce"}

NoException == [class |-> "none", what |-> "none"]

runtime_error(what) == [class |-> "runtime_error", what |-> what]

\* switch (type) { case Float: ... case Long: func<T>(args); break;
\*                 default: throw std::runtime_error("Invalid scalar type"); }
\* func is what func<T>(args) throws.
GENERATE_ALL_TYPES_NoDefault(type, func) == func

GENERATE_ALL_TYPES(type, func) ==
    IF type \in SupportedScalarTypes THEN func ELSE runtime_error("Invalid scalar type")

\* What toFunction<T>(r) throws: nothing for the four ops it returns a function
\* for, std::runtime_error for ReduceOp::UNUSED.
toFunctionThrows(r) ==
    IF r \in {"SUM", "PRODUCT", "MIN", "MAX"} THEN NoException
    ELSE runtime_error("Unhandled ReduceOp")

\* getFunction(dtype, op): GENERATE_ALL_TYPES(dtype, getFunction, fn, op)
getFunction(dtype, op) == GENERATE_ALL_TYPES(dtype, toFunctionThrows(op))

\* AsyncAllreduceWork::allreduce and AsyncReduceWork::reduce: the reduce function
\* is looked up, then the outputs are set by scalar type, then gloo runs.
TypedRunThrows(scalarType, reduceOp) ==
    IF getFunction(scalarType, reduceOp) # NoException
    THEN getFunction(scalarType, reduceOp)
    ELSE GENERATE_ALL_TYPES(scalarType, NoException)

\* One dense CPU tensor of the scalar type.
TypedInputs(dtype) == <<[DefaultTensor EXCEPT !.scalar = dtype]>>

\* What the entry point finds before nextTag().
TypedEntryCheck(kind, dtype, op) ==
    IF kind = "allreduce"
    THEN IF allreduceCheck(TypedInputs(dtype), op) # "none"
         THEN allreduceCheck(TypedInputs(dtype), op)
         ELSE allreduceLayout(TypedInputs(dtype))
    ELSE reduceCheck(TypedInputs(dtype), 0, 0)

\* ProcessGroupGloo::allreduce / ProcessGroupGloo::reduce on the tensor: the
\* call throws std::invalid_argument or allocates a tag and enqueues the work.
TypedCall(kind, dtype, op) ==
    /\ rfWork.status \in {"none", "thrown", "waited"}
    /\ rfWork' = [kind |-> kind, dtype |-> dtype, op |-> op,
                  thrown |-> IF TypedEntryCheck(kind, dtype, op) # "none"
                             THEN "invalid_argument" ELSE "none",
                  tags |-> IF TypedEntryCheck(kind, dtype, op) # "none" THEN 0 ELSE 1,
                  status |-> IF TypedEntryCheck(kind, dtype, op) # "none"
                             THEN "thrown" ELSE "queued",
                  exception |-> NoException,
                  raised |-> NoException]
    /\ UNCHANGED <<poolVars, dispatchVars, p2pVars, allgatherVars, sparseVars, denseVars,
                   cudaVars, spmdVars, waitVars, shapeVars, convVars>>

\* A worker executes the work: what run() throws is kept in the work.
TypedRun ==
    /\ rfWork.status = "queued"
    /\ rfWork' = [rfWork EXCEPT !.status = "done",
                                !.exception = TypedRunThrows(rfWork.dtype, rfWork.op)]
    /\ UNCHANGED <<poolVars, dispatchVars, p2pVars, allgatherVars, sparseVars, denseVars,
                   cudaVars, spmdVars, waitVars, shapeVars, convVars>>

\* wait() on the finished work raises what the work keeps.
TypedWait ==
    /\ rfWork.status = "done"
    /\ rfWork' = [rfWork EXCEPT !.status = "waited", !.raised = rfWork.exception]
    /\ UNCHANGED <<poolVars, dispatchVars, p2pVars, allgatherVars, sparseVars, denseVars,
                   cudaVars, spmdVars, waitVars, shapeVars, convVars>>

NoTypedWork == [kind |-> "none", dtype |-> "Float", op |-> "SUM", thrown |-> "none",
                tags |-> 0, status |-> "none", exception |-> NoException,
                raised |-> NoException]

TypedInit ==
    /\ PoolInit
    /\ ncallers = 1
    /\ threads = 1
    /\ DispatchIdle
    /\ P2PIdle
    /\ AllgatherIdle
    /\ SparseIdle
    /\ DenseIdle
    /\ CudaIdle
    /\ SpmdIdle
    /\ WaitIdle
    /\ ShapeIdle
    /\ ConvIdle
    /\ rfWork = NoTypedWork

TypedNext ==
    \/ \E kind \in TypedKinds, dtype \in TypedScalarTypes, op \in TypedReduceOps :
           TypedCall(kind, dtype, op)
    \/ TypedRun
    \/ TypedWait

TypedSpec == TypedInit /\ [][TypedNext]_vars

\* The call is outside the scalar types or the reduce ops of the claim.
TypedUnsupported ==
    rfWork.dtype \notin SupportedScalarTypes \/ rfWork.op \notin {"SUM", "PRODUCT", "MIN", "MAX"}

\* C22, as the specification states it: a dense allreduce or reduce of a scalar
\* type outside the seven, or of a reduce op outside SUM, PRODUCT, MIN and MAX,
\* fails with an invalid-argument error.
C22_UnsupportedIsInvalidArgument_AsClaimed ==
    (rfWork.status # "none" /\ TypedUnsupported) =>
        \/ rfWork.thrown = "invalid_argument"
        \/ rfWork.exception.class = "invalid_argument"
        \/ rfWork.status = "queued"

\* C22, amended: the entry point accepts the call and allocates its tag; run()
\* on the worker throws std::runtime_error, "Invalid scalar type" for a scalar
\* type outside the seven, else "Unhandled ReduceOp" for an op outside the four;
\* wait() raises it. A call of a supported type and op throws nothing.
C22_UnsupportedFailsInRunAsRuntimeError ==
    rfWork.status # "none" =>
        /\ rfWork.thrown = "none" /\ rfWork.tags = 1
        /\ rfWork.status \in {"done", "waited"} =>
              rfWork.exception =
                  IF rfWork.dtype \notin SupportedScalarTypes
                  THEN runtime_error("Invalid scalar type")
                  ELSE IF rfWork.op \notin {"SUM", "PRODUCT", "MIN", "MAX"}
                       THEN runtime_error("Unhandled ReduceOp")
                       ELSE NoException
        /\ rfWork.status = "waited" => rfWork.raised = rfWork.exception

C22_Witness ==
    /\ rfWork.status = "waited"
    /\ rfWork.kind = "reduce"
    /\ rfWork.dtype = "Short"
    /\ rfWork.op = "SUM"
    /\ rfWork.raised = runtime_error("Invalid scalar type")


\* ---------------------------------------------------------------------------
\* SendWork::wait and RecvWork::wait, statement by statement, called by
\* several threads on one handle.
\* ---------------------------------------------------------------------------

\* The threads that call wait() on the handle.
WaitThreads == 2

\* The calls of wait() on the handle, over all threads.
MaxWaitCalls == 3

HwThreads == 1..WaitThreads

\* std::unique_lock<std::mutex> lock(mutex_);
HwLockNoMutex(t) ==
    /\ hwPc[t] = "idle"
    /\ hwHist.calls < MaxWaitCalls
    /\ hwPc' = [hwPc EXCEPT ![t] = "locked"]
    /\ hwHist' = [hwHist EXCEPT !.calls = @ + 1]
    /\ UNCHANGED <<hwHandle, hwMutex>>
    /\ UNCHANGED <<poolVars, dispatchVars, p2pVars, allgatherVars, sparseVars, denseVars,
                   cudaVars, spmdVars, typedVars, shapeVars, convVars>>

HwLock(t) ==
    /\ hwPc[t] = "idle"
    /\ hwHist.calls < MaxWaitCalls
    /\ hwMutex = 0
    /\ hwMutex' = t
    /\ hwPc' = [hwPc EXCEPT ![t] = "locked"]
    /\ hwHist' = [hwHist EXCEPT !.calls = @ + 1]
    /\ UNCHANGED hwHandle
    /\ UNCHANGED <<poolVars, dispatchVars, p2pVars, allgatherVars, sparseVars, denseVars,
                   cudaVars, spmdVars, typedVars, shapeVars, convVars>>

\* try { buffer_->waitSend(); } catch (...) { exception_ = std::current_exception(); }
\* and the same with waitRecv(&srcRank_), which writes the source rank when it
\* succeeds. A failure is named by the number of the call that met it.
HwTransportWait(t, ok, src) ==
    /\ hwPc[t] = "locked"
    /\ hwHandle' = [hwHandle EXCEPT
                       !.exception = IF ok THEN @ ELSE hwHist.calls,
                       !.srcRank = IF ok /\ hwHandle.kind = "recv" THEN src ELSE @]
    /\ hwPc' = [hwPc EXCEPT ![t] = "waited"]
    /\ UNCHANGED <<hwMutex, hwHist>>
    /\ UNCHANGED <<poolVars, dispatchVars, p2pVars, allgatherVars, sparseVars, denseVars,
                   cudaVars, spmdVars, typedVars, shapeVars, convVars>>

\* completed_ = true;
HwSetCompleted(t) ==
    /\ hwPc[t] = "waited"
    /\ hwHandle' = [hwHandle EXCEPT !.completed = TRUE]
    /\ hwPc' = [hwPc EXCEPT ![t] = "set"]
    /\ hwHist' = [hwHist EXCEPT
                     !.ups = IF hwHandle.completed THEN @ ELSE @ + 1,
                     !.unlocked = IF hwMutex = t THEN @ ELSE @ + 1]
    /\ UNCHANGED hwMutex
    /\ UNCHANGED <<poolVars, dispatchVars, p2pVars, allgatherVars, sparseVars, denseVars,
                   cudaVars, spmdVars, typedVars, shapeVars, convVars>>

\* if (exception_) std::rethrow_exception(exception_); and the end of wait():
\* the lock goes out of scope either way.
HwReturn(t) ==
    /\ hwPc[t] = "set"
    /\ hwPc' = [hwPc EXCEPT ![t] = "idle"]
    /\ hwMutex' = IF hwMutex = t THEN 0 ELSE hwMutex
    /\ hwHist' = [hwHist EXCEPT
                     !.returned = @ + 1,
                     !.raised = IF hwHandle.exception # 0 THEN @ + 1 ELSE @]
    /\ UNCHANGED hwHandle
    /\ UNCHANGED <<poolVars, dispatchVars, p2pVars, allgatherVars, sparseVars, denseVars,
                   cudaVars, spmdVars, typedVars, shapeVars, convVars>>

\* SendWork::SendWork and RecvWork::RecvWork: the handle as send(), recv() or
\* recvAnysource() returns it.
WaitInit ==
    /\ PoolInit
    /\ ncallers = 1
    /\ threads = 1
    /\ DispatchIdle
    /\ P2PIdle
    /\ AllgatherIdle
    /\ SparseIdle
    /\ DenseIdle
    /\ CudaIdle
    /\ SpmdIdle
    /\ TypedIdle
    /\ ShapeIdle
    /\ ConvIdle
    /\ \E kind \in {"send", "recv"} :
           hwHandle = [kind |-> kind, completed |-> FALSE, exception |-> 0,
                       srcRank |-> 0 - 1]
    /\ hwMutex = 0
    /\ hwPc = [t \in HwThreads |-> "idle"]
    /\ hwHist = [calls |-> 0, ups |-> 0, unlocked |-> 0, returned |-> 0,
                 raised |-> 0]

WaitNext ==
    \E t \in HwThreads :
        \/ HwLock(t)
        \/ \E ok \in BOOLEAN, src \in 0..(GroupSize - 1) : HwTransportWait(t, ok, src)
        \/ HwSetCompleted(t)
        \/ HwReturn(t)

WaitSpec == WaitInit /\ [][WaitNext]_vars

\* C23: the completed flag of a handle goes from false to true at most once,
\* is written only by the thread that holds the handle's mutex, and is never
\* false again, however many times and from however many threads wait() is
\* called.
C23_CompletedSetOnceUnderMutex ==
    /\ hwHist.ups <= 1
    /\ hwHist.unlocked = 0
    /\ hwHandle.completed <=> hwHist.ups = 1
    /\ hwHist.returned > 0 => hwHandle.completed
    /\ \A t \in HwThreads : hwPc[t] # "idle" => hwMutex = t

C23_Witness ==
    /\ hwHist.returned = MaxWaitCalls
    /\ hwHist.ups = 1
    /\ hwHandle.completed
    /\ hwHist.raised > 0


\* ---------------------------------------------------------------------------
\* The size check of the sparse allreduce, on tensors of several sparse and
\* dense dimensions.
\* ---------------------------------------------------------------------------

\* The most dimensions of a tensor that a caller passes.
MaxShapeDims == 2

\* The sizes of a dimension.
DimSizes == {0, 2, 3}

\* A sparse tensor by its shape: its sizes, the first sparse_dim of which are
\* the sizes of the sparse dimensions and the others those of the dense ones.
ShapedTensors ==
    UNION {[sizes : [1..n -> DimSizes], sparse_dim : 0..n] : n \in 1..MaxShapeDims}

sparse_sizes(t) == SubSeq(t.sizes, 1, t.sparse_dim)

dense_sizes(t) == SubSeq(t.sizes, t.sparse_dim + 1, Len(t.sizes))

\* SparseTensorMetadata::populate_from_sparse_tensor, on a row of the at::zeros
\* buffer: data_[i] = tensor.size(i) for i < sparse_dim, data_[i + 4] =
\* tensor.size(sparse_dim + i) for i < dense_dim, data_[8] = nnz.
populate_from_shape(t, nnz) ==
    [i \in 0..(MetadataDim - 1) |->
        IF i < MetadataDims
        THEN (IF i < t.sparse_dim THEN t.sizes[i + 1] ELSE 0)
        ELSE IF i < 2 * MetadataDims
             THEN (IF i - MetadataDims < Len(t.sizes) - t.sparse_dim
                   THEN t.sizes[t.sparse_dim + (i - MetadataDims) + 1] ELSE 0)
             ELSE nnz]

\* allgather_metadata, when the transport does not fail.
ShapeMetadata == [k \in Ranks |-> populate_from_shape(shTensor[k], 0)]

\* for every other rank i: AT_CHECK(metadata[i].sizes() == metadata[rank].sizes(), ...)
ShapeCheck(r) ==
    \A k \in Ranks \ {r} : MetadataSizes(ShapeMetadata[k]) = MetadataSizes(ShapeMetadata[r])

\* AsyncSparseAllreduceWork::allreduce on rank r, up to the size check.
ShapeRun(r) ==
    /\ shWork[r] = "queued"
    /\ shWork' = [shWork EXCEPT ![r] =
                     IF ShapeCheck(r) THEN "passed" ELSE "Sparse dimensions do not match"]
    /\ UNCHANGED shTensor
    /\ UNCHANGED <<poolVars, dispatchVars, p2pVars, allgatherVars, sparseVars, denseVars,
                   cudaVars, spmdVars, typedVars, waitVars, convVars>>

ShapeInit ==
    /\ PoolInit
    /\ ncallers = 1
    /\ threads = 1
    /\ DispatchIdle
    /\ P2PIdle
    /\ AllgatherIdle
    /\ SparseIdle
    /\ DenseIdle
    /\ CudaIdle
    /\ SpmdIdle
    /\ TypedIdle
    /\ WaitIdle
    /\ ConvIdle
    /\ shTensor \in [Ranks -> ShapedTensors]
    /\ shWork = [r \in Ranks |-> "queued"]

ShapeNext == \E r \in Ranks : ShapeRun(r)

ShapeSpec == ShapeInit /\ [][ShapeNext]_vars

\* Rank k's tensor differs from rank r's in the sparse or in the dense sizes.
ShapesDiffer(r, k) ==
    \/ sparse_sizes(shTensor[k]) # sparse_sizes(shTensor[r])
    \/ dense_sizes(shTensor[k]) # dense_sizes(shTensor[r])

\* C25, as the specification states it: the sparse allreduce of a rank fails
\* with 'Sparse dimensions do not match' whenever the sparse sizes or the dense
\* sizes of another rank differ from its own.
C25_DifferingSizesFail_AsClaimed ==
    \A r \in Ranks :
        (shWork[r] # "queued" /\ \E k \in Ranks : ShapesDiffer(r, k)) =>
            shWork[r] = "Sparse dimensions do not match"


\* ---------------------------------------------------------------------------
\* The tag and the context of every operation that one rank dispatches.
\* ---------------------------------------------------------------------------

\* The entry points that build a work item and enqueue it.
TaggedOps == {"broadcast", "allreduce", "allreduce_coalesced", "reduce", "allgather",
              "gather", "scatter", "barrier"}

\* The entry points that start a transfer on an unbound buffer.
P2POps == {"send", "recv", "recvAnysource"}

\* The tags that pass checkTag.
GoodUserTags == {t \in UserTags : checkTag(t) = "none"} \cup {1}

\* getContext(tag), by the index of the context in contexts_, on the rank
\* that dispatches.
getContextFirst(tag) == 0

getContextOf(tag) == getContext(tag, smContexts)

\* An entry point of TaggedOps, called with arguments that pass its checks:
\* auto tag = nextTag(); auto context = getContext(tag);
TaggedDispatch(op) ==
    /\ Len(smLog[rank]) < MaxProgram
    /\ LET t == nextTag(smCounter[rank])
       IN  /\ smCounter' = [smCounter EXCEPT ![rank] = t.counter]
           /\ smLog' = [smLog EXCEPT ![rank] =
                           Append(@, [op |-> op, utag |-> 0 - 1, tag |-> t.tag,
                                      context |-> getContextOf(t.tag),
                                      counterBefore |-> smCounter[rank],
                                      counterAfter |-> t.counter])]
    /\ UNCHANGED <<smProgram, smContexts, smPos>>
    /\ UNCHANGED <<poolVars, dispatchVars, p2pVars, allgatherVars, sparseVars, denseVars,
                   cudaVars, typedVars, waitVars, shapeVars, convVars>>

\* send, recv and recvAnysource, called with one contiguous dense tensor and
\* a tag that passes checkTag: auto utag = checkTag(tag);
\* auto context = getContext(tag); buf->send(dstRank, utag).
P2PDispatch(op, tag) ==
    /\ Len(smLog[rank]) < MaxProgram
    /\ smLog' = [smLog EXCEPT ![rank] =
                    Append(@, [op |-> op, utag |-> tag, tag |-> tag,
                               context |-> getContextOf(tag),
                               counterBefore |-> smCounter[rank],
                               counterAfter |-> smCounter[rank]])]
    /\ UNCHANGED <<smProgram, smContexts, smPos, smCounter>>
    /\ UNCHANGED <<poolVars, dispatchVars, p2pVars, allgatherVars, sparseVars, denseVars,
                   cudaVars, typedVars, waitVars, shapeVars, convVars>>

\* One rank with 1..MaxContexts contexts; nothing has been dispatched.
ContextInit ==
    /\ PoolInit
    /\ ncallers = 1
    /\ threads = 1
    /\ DispatchIdle
    /\ P2PIdle
    /\ AllgatherIdle
    /\ SparseIdle
    /\ DenseIdle
    /\ CudaIdle
    /\ TypedIdle
    /\ WaitIdle
    /\ ShapeIdle
    /\ ConvIdle
    /\ smProgram = <<>>
    /\ smContexts \in 1..MaxContexts
    /\ smPos = [r \in Ranks |-> 0]
    /\ smCounter = [r \in Ranks |-> 0]
    /\ smLog = [r \in Ranks |-> <<>>]

ContextNext ==
    \/ \E op \in TaggedOps : TaggedDispatch(op)
    \/ \E op \in P2POps, tag \in GoodUserTags : P2PDispatch(op, tag)

ContextSpec == ContextInit /\ [][ContextNext]_vars

\* C31, as the specification states it: every dispatched operation, the
\* point-to-point ones included, has the tag that nextTag() returned for it,
\* has advanced the counter, and uses the context at index tag mod N.
C31_EveryOperationAllocatesTag_AsClaimed ==
    \A i \in 1..Len(smLog[rank]) :
        LET e == smLog[rank][i]
        IN  /\ e.tag = e.counterBefore
            /\ e.counterAfter = (e.counterBefore + 1) % TagModulus
            /\ e.context = e.tag % smContexts

\* C31, amended: every collective and every barrier has the tag that nextTag()
\* returned for it and uses the context at index tag mod N; send, recv and
\* recvAnysource do not call nextTag(): they leave the counter alone, pass the
\* caller's tag to the transport and use the context at index (caller's tag)
\* mod N.
C31_CollectivesAllocateP2PUseCallerTag ==
    \A i \in 1..Len(smLog[rank]) :
        LET e == smLog[rank][i]
        IN  /\ e.context = e.tag % smContexts
            /\ e.op \in TaggedOps =>
                  /\ e.tag = e.counterBefore
                  /\ e.counterAfter = (e.counterBefore + 1) % TagModulus
            /\ e.op \in P2POps =>
                  /\ e.tag = e.utag
                  /\ e.counterAfter = e.counterBefore

\* C31, witness: with two contexts, a rank has dispatched a collective with
\* tag 0, a barrier with tag 1 on the second context, and a recv with the
\* largest tag, on the second context as well.
C31_Witness ==
    /\ smContexts = 2
    /\ Len(smLog[rank]) = 3
    /\ smLog[rank][1].op = "allgather" /\ smLog[rank][1].context = 0
    /\ smLog[rank][2].op = "barrier" /\ smLog[rank][2].tag = 1
    /\ smLog[rank][2].context = 1
    /\ smLog[rank][3].op = "recv" /\ smLog[rank][3].utag = Int32Max
    /\ smLog[rank][3].context = 1
    /\ smCounter[rank] = 0


\* ---------------------------------------------------------------------------
\* One accelerator work item, statement by statement: the constructor on the
\* caller's thread, run() on the worker, and the device, which works off each
\* stream in order.
\* ---------------------------------------------------------------------------

StagedClasses == {"AsyncAllreduceCUDAWork", "AsyncBroadcastCUDAWork"}

\* The tensors the constructor copies to pinned host memory, and whose streams
\* run() synchronises with: every input of an allreduce; of a broadcast,
\* inputs[rootTensor] on the root rank and none elsewhere.
Staged(w) ==
    IF w.class = "AsyncAllreduceCUDAWork" THEN 1..w.n
    ELSE IF w.isRoot THEN {w.rootTensor} ELSE {}

\* The least tensor of S after i, or n + 1 when there is none.
NextIn(S, i, n) ==
    IF \E k \in S : k > i THEN CHOOSE k \in S : k > i /\ \A l \in S : l > i => k <= l
    ELSE n + 1

Logged(w, step, i) == [w EXCEPT !.log = Append(@, <<step, i>>)]

StageUnchanged ==
    UNCHANGED <<poolVars, dispatchVars, p2pVars, allgatherVars, sparseVars, denseVars,
                spmdVars, typedVars, waitVars, shapeVars, convVars>>

\* The constructor: initializeStreamsEvents(inputs, streams, events).
StageStreams ==
    /\ cuWork.pc = "new"
    /\ \E pick \in [EventIds -> 1..PoolSize] :
           /\ \A i \in 1..MaxTensors : pick[<<"in", i>>] = 1
           /\ \A i \in (cuWork.n + 1)..MaxTensors : pick[<<"out", i>>] = 1
           /\ LET g == initializeStreamsEvents(
                           [st |-> cuStreams, ev |-> cuEvents, streams |-> cuWork.streams],
                           "out", cuWork.outDevice, pick, 1)
              IN  /\ cuStreams' = g.st
                  /\ cuEvents' = g.ev
                  /\ cuWork' = [cuWork EXCEPT !.pc = "ctor_copy", !.streams = g.streams,
                                              !.i = NextIn(Staged(cuWork), 0, cuWork.n)]
    /\ UNCHANGED cuCurrent
    /\ StageUnchanged

\* The constructor: guard.reset_stream(streams[i]); tmp.copy_(inputs[i], true).
\* After the last copy the constructor returns and the entry point enqueues
\* the work item.
StageCopyToPinned ==
    /\ cuWork.pc = "ctor_copy"
    /\ IF cuWork.i <= cuWork.n
       THEN /\ cuStreams' = EnqueueOn(cuStreams, cuWork.streams[<<"out", cuWork.i>>],
                                      StreamOp("copy_d2h", cuWork.i, 0, NoCapture, FALSE))
            /\ cuWork' = [Logged(cuWork, "d2h", cuWork.i) EXCEPT
                             !.i = NextIn(Staged(cuWork), cuWork.i, cuWork.n)]
       ELSE /\ cuWork' = [Logged(cuWork, "enqueue", 0) EXCEPT !.pc = "queued"]
            /\ UNCHANGED cuStreams
    /\ UNCHANGED <<cuCurrent, cuEvents>>
    /\ StageUnchanged

\* A worker takes the work item from the queue and calls run().
StageDequeue ==
    /\ cuWork.pc = "queued"
    /\ cuWork' = [cuWork EXCEPT !.pc = "sync", !.i = NextIn(Staged(cuWork), 0, cuWork.n)]
    /\ UNCHANGED <<cuCurrent, cuStreams, cuEvents>>
    /\ StageUnchanged

\* The device has finished every operation that the stream holds.
StreamDrained(stream) == cuWork.done[stream] = Len(cuStreams[stream])

\* run(): AT_CUDA_CHECK(cudaStreamSynchronize(streams[i])) returns when the
\* stream is drained, or fails.
StageSynchronizeNoWait(ok) ==
    /\ cuWork.pc = "sync"
    /\ cuWork.i <= cuWork.n
    /\ cuWork' = IF ok
                 THEN [Logged(cuWork, "synchronized", cuWork.i) EXCEPT
                          !.i = NextIn(Staged(cuWork), cuWork.i, cuWork.n)]
                 ELSE [cuWork EXCEPT !.pc = "failed"]
    /\ UNCHANGED <<cuCurrent, cuStreams, cuEvents>>
    /\ StageUnchanged

StageSynchronize(ok) ==
    /\ cuWork.pc = "sync"
    /\ cuWork.i <= cuWork.n
    /\ ok => StreamDrained(cuWork.streams[<<"out", cuWork.i>>])
    /\ cuWork' = IF ok
                 THEN [Logged(cuWork, "synchronized", cuWork.i) EXCEPT
                          !.i = NextIn(Staged(cuWork), cuWork.i, cuWork.n)]
                 ELSE [cuWork EXCEPT !.pc = "failed"]
    /\ UNCHANGED <<cuCurrent, cuStreams, cuEvents>>
    /\ StageUnchanged

\* run(): allreduce(tmp) or broadcast(tmp) on the host returns or throws.
StageCollective(ok) ==
    /\ cuWork.pc = "sync"
    /\ cuWork.i > cuWork.n
    /\ cuWork' = IF ok
                 THEN [Logged(cuWork, "collective", 0) EXCEPT !.pc = "copy_back", !.i = 1]
                 ELSE [cuWork EXCEPT !.pc = "failed"]
    /\ UNCHANGED <<cuCurrent, cuStreams, cuEvents>>
    /\ StageUnchanged

\* run(): stream_guard.reset_stream(streams[i]); inputs[i].copy_(tmp, true).
StageCopyBack ==
    /\ cuWork.pc = "copy_back"
    /\ IF cuWork.i <= cuWork.n
       THEN /\ cuStreams' = EnqueueOn(cuStreams, cuWork.streams[<<"out", cuWork.i>>],
                                      StreamOp("copy_h2d", cuWork.i, 1, NoCapture, FALSE))
            /\ cuWork' = [Logged(cuWork, "h2d", cuWork.i) EXCEPT !.pc = "record"]
       ELSE /\ cuWork' = [cuWork EXCEPT !.pc = "completed"]
            /\ UNCHANGED cuStreams
    /\ UNCHANGED <<cuCurrent, cuEvents>>
    /\ StageUnchanged

\* run(): events[i].record(streams[i]).
StageRecord ==
    /\ cuWork.pc = "record"
    /\ cuEvents' = [cuEvents EXCEPT ![<<"out", cuWork.i>>] =
                       record(cuStreams, cuWork.streams[<<"out", cuWork.i>>])]
    /\ cuWork' = [Logged(cuWork, "record", cuWork.i) EXCEPT !.pc = "copy_back", !.i = @ + 1]
    /\ UNCHANGED <<cuCurrent, cuStreams>>
    /\ StageUnchanged

\* The device finishes the next operation of a stream; a wait for an event
\* finishes once the work that the event captured is finished.
StreamExec(stream) ==
    /\ cuWork.done[stream] < Len(cuStreams[stream])
    /\ LET o == cuStreams[stream][cuWork.done[stream] + 1]
       IN  o.op = "wait" =>
               (o.ev = NoCapture \/ cuWork.done[o.ev.stream] >= o.ev.pos)
    /\ cuWork' = [cuWork EXCEPT !.done[stream] = @ + 1]
    /\ UNCHANGED <<cuCurrent, cuStreams, cuEvents>>
    /\ StageUnchanged

\* An allreduce or a broadcast of 1..MaxTensors tensors on any devices has
\* passed the checks of its entry point; the caller's current streams are the
\* default streams.
StageInit ==
    /\ PoolInit
    /\ ncallers = 1
    /\ threads = 1
    /\ DispatchIdle
    /\ P2PIdle
    /\ AllgatherIdle
    /\ SparseIdle
    /\ DenseIdle
    /\ SpmdIdle
    /\ TypedIdle
    /\ WaitIdle
    /\ ShapeIdle
    /\ ConvIdle
    /\ cuCurrent = [d \in Devices |-> DefaultStream(d)]
    /\ cuStreams = [stream \in StreamIds |-> <<>>]
    /\ cuEvents = [e \in EventIds |-> NoCapture]
    /\ \E class \in StagedClasses, n \in 1..MaxTensors, isRoot \in BOOLEAN :
       \E outDevice \in [1..n -> Devices], rootTensor \in 1..n :
           /\ class = "AsyncAllreduceCUDAWork" => (isRoot /\ rootTensor = 1)
           /\ cuWork = [class |-> class, pc |-> "new", n |-> n, isRoot |-> isRoot,
                        rootTensor |-> rootTensor, outDevice |-> outDevice,
                        streams |-> [e \in EventIds |-> <<"none", 0, 0>>],
                        i |-> 0,
                        done |-> [stream \in StreamIds |-> 0],
                        log |-> <<>>]

StageNext ==
    \/ StageStreams
    \/ StageCopyToPinned
    \/ StageDequeue
    \/ \E ok \in BOOLEAN : StageSynchronize(ok)
    \/ \E ok \in BOOLEAN : StageCollective(ok)
    \/ StageCopyBack
    \/ StageRecord
    \/ \E stream \in StreamIds : StreamExec(stream)

StageSpec == StageInit /\ [][StageNext]_vars

\* Every occurrence of step a in the log is before every occurrence of step b.
StepBefore(a, b) ==
    \A p, q \in DOMAIN cuWork.log : (cuWork.log[p] = a /\ cuWork.log[q] = b) => p < q

StepLogged(a) == \E p \in DOMAIN cuWork.log : cuWork.log[p] = a

\* The device has finished every staging copy.
StagingFinished ==
    \A stream \in StreamIds : \A p \in DOMAIN cuStreams[stream] :
        cuStreams[stream][p].op = "copy_d2h" => p <= cuWork.done[stream]

\* C32: within one accelerator work item every staging copy is started, on the
\* pool stream of its tensor, before the item is enqueued; the host-side
\* collective is called only when every staging copy has been started and has
\* finished; every copy back to the device is started after the collective
\* has returned; and the event of an output is recorded after the copy of that
\* output, which it captures.
C32_StagedStepsInOrder ==
    /\ \A i \in 1..MaxTensors :
          /\ StepBefore(<<"d2h", i>>, <<"enqueue", 0>>)
          /\ StepBefore(<<"collective", 0>>, <<"h2d", i>>)
          /\ StepBefore(<<"h2d", i>>, <<"record", i>>)
          /\ StepLogged(<<"h2d", i>>) => StepLogged(<<"collective", 0>>)
          /\ StepLogged(<<"record", i>>) =>
                /\ StepLogged(<<"h2d", i>>)
                /\ LET stream == cuWork.streams[<<"out", i>>]
                   IN  \E p \in 1..cuEvents[<<"out", i>>].pos :
                           /\ cuEvents[<<"out", i>>].stream = stream
                           /\ cuStreams[stream][p].op = "copy_h2d"
                           /\ cuStreams[stream][p].i = i
    /\ StepLogged(<<"enqueue", 0>>) =>
          \A i \in Staged(cuWork) :
              \E p \in DOMAIN cuStreams[cuWork.streams[<<"out", i>>]] :
                  /\ cuWork.streams[<<"out", i>>][1] = "pool"
                  /\ cuStreams[cuWork.streams[<<"out", i>>]][p].op = "copy_d2h"
                  /\ cuStreams[cuWork.streams[<<"out", i>>]][p].i = i
    /\ StepLogged(<<"collective", 0>>) => StagingFinished

\* C32, witness: run() of an allreduce of two tensors on two devices has
\* recorded the event of the second output, and the device has not finished
\* the copies back.
C32_Witness ==
    /\ cuWork.class = "AsyncAllreduceCUDAWork"
    /\ cuWork.n = 2
    /\ cuWork.outDevice[1] # cuWork.outDevice[2]
    /\ cuWork.pc = "completed"
    /\ StepLogged(<<"record", 2>>)
    /\ \E stream \in StreamIds : ~StreamDrained(stream)

\* ---------------------------------------------------------------------------
\* Termination of the pool: every item is executed, the destructor returns.
\* ---------------------------------------------------------------------------

\* ~ProcessGroupGloo() begins when no caller thread is inside an entry point
\* of the object under destruction.
LiveDtorBegin ==
    /\ \A c \in Callers : cpc[c].pc = "idle"
    /\ DtorBegin

\* The steps of the thread that runs the destructor, once it is in it.
DtorStep == DtorRecheck \/ DtorNotifyAll \/ DtorJoin

LiveInit ==
    /\ PoolInit
    /\ ncallers = 1
    /\ threads <= MaxDtorWorkers
    /\ DispatchIdle
    /\ P2PIdle
    /\ AllgatherIdle
    /\ SparseIdle
    /\ DenseIdle
    /\ CudaIdle
    /\ SpmdIdle
    /\ TypedIdle
    /\ WaitIdle
    /\ ShapeIdle
    /\ ConvIdle

LiveNext ==
    \/ Next
    \/ LiveDtorBegin
    \/ DtorRecheck
    \/ DtorNotifyAll
    \/ DtorJoin

\* Every thread that can take a step is scheduled in the end, and every
\* transport call returns (RunCollective and BarrierIssue are steps of
\* WorkerStep). A wait on a condition variable ends by a notification only:
\* SpuriousWakeup is possible and not relied on.
LiveSpec ==
    /\ LiveInit
    /\ [][LiveNext]_vars
    /\ \A w \in 1..MaxWorkers : WF_vars(WorkerStep(w))
    /\ \A c \in 1..MaxCallers : WF_vars(EnqueueStep(c))
    /\ WF_vars(DtorStep)

\* Worker w is inside the run() of a barrier item that has not finished.
InBarrierRun(w) ==
    /\ w \in Workers
    /\ wpc[w] = "run"
    /\ workInProgress[w] # 0
    /\ work[workInProgress[w]].kind = "barrier"

\* No item is in the queue or dequeued and unfinished, no worker is inside a
\* barrier's run(), and the destructor has not begun or has returned.
Settled ==
    /\ \A i \in Ids : work[i].status \notin {"queued", "dequeued"}
    /\ \A w \in 1..MaxWorkers : ~InBarrierRun(w)
    /\ dpc \in {"none", "returned"}

DropHandleEarly(i) ==
    /\ work[i].held
    /\ ~Completed(i)
    /\ work' = [work EXCEPT ![i].held = FALSE]
    /\ UNCHANGED <<dispatchVars, p2pVars, allgatherVars, sparseVars, denseVars, cudaVars,
                   spmdVars, typedVars, waitVars, shapeVars, convVars>>
    /\ UNCHANGED <<ncallers, threads, collectiveCounter, workQueue, workInProgress, stop, wpc,
                   cpc, dpc, enqOrder, deqOrder, dtorEnq>>

RefNext ==
    \/ Next
    \/ \E i \in Ids : DropHandleEarly(i)

\* One caller and up to two workers; the caller lets go of a handle at any
\* time.
RefSpec == FairInit /\ [][RefNext]_vars

\* workQueue_ or a slot of workInProgress_ holds a shared_ptr to item i.
GroupHolds(i) ==
    \/ i \in Range(workQueue)
    \/ \E w \in Workers : workInProgress[w] = i

\* C34: an item that is in the queue or is being executed is held by the queue
\* or by a worker's slot, whether or not the caller still has its handle, and
\* a weak_ptr of a barrier's snapshot that does not upgrade refers to an item
\* that has completed.
C34_WeakRefFailsOnlyAfterCompletion ==
    /\ \A i \in Ids : work[i].status \in {"queued", "dequeued"} => GroupHolds(i)
    /\ \A b \in Ids : \A k \in 1..Len(work[b].prior) :
          LET p == work[b].prior[k]
          IN  (work[b].kind = "barrier" /\ p # 0 /\ ~Alive(p)) => Completed(p)

\* C34, witness: a barrier's run() has reached the weak_ptr to an item whose
\* handle the caller dropped while another worker is still executing it.
C34_Witness ==
    \E w \in Workers :
        /\ wpc[w] = "run"
        /\ workInProgress[w] # 0
        /\ LET b == workInProgress[w]
           IN  /\ work[b].kind = "barrier"
               /\ work[b].pos <= Len(work[b].prior)
               /\ LET p == work[b].prior[work[b].pos]
                  IN  /\ p # 0
                      /\ ~work[p].held
                      /\ work[p].status = "dequeued"
                      /\ Alive(p)

\* ---------------------------------------------------------------------------
\* A barrier whose snapshot holds a failed item.
\* ---------------------------------------------------------------------------

\* Worker w is in the loop of a barrier's run() at a weak_ptr that upgrades to
\* an item that completed with a captured failure.
AtFailedPrior(w) ==
    /\ w \in Workers
    /\ wpc[w] = "run"
    /\ workInProgress[w] # 0
    /\ LET b == workInProgress[w]
       IN  /\ work[b].kind = "barrier"
           /\ work[b].pos <= Len(work[b].prior)
           /\ LET p == work[b].prior[work[b].pos]
              IN  /\ p # 0
                  /\ Alive(p)
                  /\ Completed(p)
                  /\ work[p].failed

\* The step is one of run() of the item in worker w's slot.
RunStep(w) ==
    \/ wpc'[w] # wpc[w]
    \/ work'[workInProgress[w]].pos # work[workInProgress[w]].pos

Places(i) ==
    Cardinality({k \in 1..Len(workQueue) : workQueue[k] = i})
        + Cardinality({w \in Workers : workInProgress[w] = i})

\* The number of times item i was popped from the queue.
Pops(i) == Cardinality({k \in 1..Len(deqOrder) : deqOrder[k] = i})

\* The step is one of worker w with workMutex_ held: a pass of the loop, from
\* the start of the thread, from a wakeup or from lock.lock() after execute().
LockedStep(w) == wpc[w] \in {"loop", "relock"} /\ wpc'[w] # wpc[w]

\* C36: an item is in at most one place of the queue and the in-progress
\* slots, it is popped at most once, exactly once when it has been executed,
\* and the slot of worker w changes only in a step of worker w that holds the
\* queue mutex.
C36_ExecutedOnceByOneWorker ==
    /\ [](\A i \in Ids :
             /\ Places(i) <= 1
             /\ Pops(i) <= 1
             /\ work[i].status \in {"dequeued", "completed"} => Pops(i) = 1
             /\ work[i].status \in {"created", "queued"} => Pops(i) = 0)
    /\ [][\A w \in 1..MaxWorkers :
              (w \in Workers /\ workInProgress'[w] # workInProgress[w]) => LockedStep(w)]_vars

\* C36, witness: three workers, each executing an item of its own, with an
\* empty queue.
C36_Witness ==
    /\ threads = 3
    /\ workQueue = <<>>
    /\ \A w \in Workers : wpc[w] = "run" /\ workInProgress[w] # 0
    /\ \A i \in Ids : Places(i) = 1 /\ Pops(i) = 1

\* ---------------------------------------------------------------------------
\* RecvWork::sourceRank() and RecvWork::wait() on one handle.
\* ---------------------------------------------------------------------------

\* sourceRank() that does not take the mutex.
sourceRankNoLock(t) ==
    /\ hwPc[t] = "idle"
    /\ hwHist.calls < MaxWaitCalls
    /\ hwPc' = [hwPc EXCEPT ![t] = "reading"]
    /\ hwHist' = [hwHist EXCEPT !.calls = @ + 1]
    /\ UNCHANGED <<hwHandle, hwMutex>>
    /\ UNCHANGED <<poolVars, dispatchVars, p2pVars, allgatherVars, sparseVars, denseVars,
                   cudaVars, spmdVars, typedVars, shapeVars, convVars>>

\* std::lock_guard<std::mutex> lock(mutex_); in sourceRank(): the call blocks
\* while another thread holds the mutex.
sourceRankLock(t) ==
    /\ hwPc[t] = "idle"
    /\ hwHist.calls < MaxWaitCalls
    /\ hwMutex = 0
    /\ hwMutex' = t
    /\ hwPc' = [hwPc EXCEPT ![t] = "reading"]
    /\ hwHist' = [hwHist EXCEPT !.calls = @ + 1]
    /\ UNCHANGED hwHandle
    /\ UNCHANGED <<poolVars, dispatchVars, p2pVars, allgatherVars, sparseVars, denseVars,
                   cudaVars, spmdVars, typedVars, shapeVars, convVars>>

\* return srcRank_; what the call returns is kept with whether srcRank_ was
\* being written and with the number of calls of wait() that had returned.
sourceRankReturn(t) ==
    /\ hwPc[t] = "reading"
    /\ hwHist' = [hwHist EXCEPT
                     !.seen = @ \cup {[value |-> hwHandle.srcRank,
                                       torn |-> hwHandle.writing,
                                       returned |-> hwHist.returned]}]
    /\ hwMutex' = IF hwMutex = t THEN 0 ELSE hwMutex
    /\ hwPc' = [hwPc EXCEPT ![t] = "idle"]
    /\ UNCHANGED hwHandle
    /\ UNCHANGED <<poolVars, dispatchVars, p2pVars, allgatherVars, sparseVars, denseVars,
                   cudaVars, spmdVars, typedVars, shapeVars, convVars>>

\* buffer_->waitRecv(&srcRank_) begins: a receive that completes starts to
\* write the source rank into srcRank_, one that fails leaves srcRank_ alone.
waitRecvBegin(t, ok) ==
    /\ hwPc[t] = "locked"
    /\ hwHandle' = [hwHandle EXCEPT !.writing = ok, !.ok = ok]
    /\ hwPc' = [hwPc EXCEPT ![t] = "receiving"]
    /\ UNCHANGED <<hwMutex, hwHist>>
    /\ UNCHANGED <<poolVars, dispatchVars, p2pVars, allgatherVars, sparseVars, denseVars,
                   cudaVars, spmdVars, typedVars, shapeVars, convVars>>

\* waitRecv returns or throws; catch (...) keeps the failure in exception_.
waitRecvEnd(t, src) ==
    /\ hwPc[t] = "receiving"
    /\ hwHandle' = [hwHandle EXCEPT
                       !.writing = FALSE,
                       !.exception = IF hwHandle.ok THEN @ ELSE hwHist.calls,
                       !.srcRank = IF hwHandle.ok THEN src ELSE @]
    /\ hwPc' = [hwPc EXCEPT ![t] = "waited"]
    /\ UNCHANGED <<hwMutex, hwHist>>
    /\ UNCHANGED <<poolVars, dispatchVars, p2pVars, allgatherVars, sparseVars, denseVars,
                   cudaVars, spmdVars, typedVars, shapeVars, convVars>>

\* RecvWork::RecvWork: srcRank_(-1).
SourceInit ==
    /\ PoolInit
    /\ ncallers = 1
    /\ threads = 1
    /\ DispatchIdle
    /\ P2PIdle
    /\ AllgatherIdle
    /\ SparseIdle
    /\ DenseIdle
    /\ CudaIdle
    /\ SpmdIdle
    /\ TypedIdle
    /\ ShapeIdle
    /\ ConvIdle
    /\ hwHandle = [kind |-> "recv", completed |-> FALSE, exception |-> 0,
                   srcRank |-> 0 - 1, writing |-> FALSE, ok |-> FALSE]
    /\ hwMutex = 0
    /\ hwPc = [t \in HwThreads |-> "idle"]
    /\ hwHist = [calls |-> 0, ups |-> 0, unlocked |-> 0, returned |-> 0,
                 raised |-> 0, seen |-> {}]

SourceNext ==
    \E t \in HwThreads :
        \/ HwLock(t)
        \/ \E ok \in BOOLEAN : waitRecvBegin(t, ok)
        \/ \E src \in 0..(GroupSize - 1) : waitRecvEnd(t, src)
        \/ HwSetCompleted(t)
        \/ HwReturn(t)
        \/ sourceRankLock(t)
        \/ sourceRankReturn(t)

SourceSpec == SourceInit /\ [][SourceNext]_vars

\* C37: sourceRank() returns -1 as long as no call of wait() on the handle
\* has returned, it never returns srcRank_ while waitRecv is writing it, and
\* a thread inside sourceRank() or wait() holds the handle's mutex, so that
\* the two are never inside at once.
C37_SourceRankAfterWaitOnly ==
    /\ \A o \in hwHist.seen :
          /\ ~o.torn
          /\ o.returned = 0 => o.value = 0 - 1
    /\ \A t \in HwThreads : hwPc[t] # "idle" => hwMutex = t

\* C37, witness: a call of sourceRank() returned -1 before any wait() had
\* returned, and a later call returned the source rank that a completed
\* wait() stored.
C37_Witness ==
    /\ \E o \in hwHist.seen : o.returned = 0 /\ o.value = 0 - 1
    /\ \E o \in hwHist.seen : o.returned > 0 /\ o.value = 1
    /\ hwHandle.completed
    /\ hwHandle.exception = 0

\* ---------------------------------------------------------------------------
\* The metadata record of one sparse tensor, written and read back.
\* ---------------------------------------------------------------------------

\* The sizes of a dimension that is not empty.
PositiveSizes == {1, 3}

\* The sparse tensors of up to four sparse and up to four dense dimensions, no
\* dimension empty, by their shape and their nnz.
PositiveTensors ==
    UNION {[sizes : [1..(s + d) -> PositiveSizes], sparse_dim : {s}, nnz : 0..MaxNnz] :
               s \in 0..MetadataDims, d \in 0..MetadataDims}

\* at::zeros({size, SparseTensorMetadata::dim}): one row of it.
ZeroRow == [i \in 0..(MetadataDim - 1) |-> 0]

\* SparseTensorMetadata(row).populate_from_sparse_tensor(tensor)
RecordPopulate ==
    /\ shWork = [pc |-> "zeros", data |-> ZeroRow]
    /\ shWork' = [pc |-> "populated", data |-> populate_from_shape(shTensor, shTensor.nnz)]
    /\ UNCHANGED shTensor
    /\ UNCHANGED <<poolVars, dispatchVars, p2pVars, allgatherVars, sparseVars, denseVars,
                   cudaVars, spmdVars, typedVars, waitVars, convVars>>

\* sizes() and nnz() of the record.
RecordRead ==
    /\ shWork.pc = "populated"
    /\ shWork' = [pc |-> "read", data |-> shWork.data,
                  sizes |-> MetadataSizes(shWork.data), nnz |-> MetadataNnz(shWork.data)]
    /\ UNCHANGED shTensor
    /\ UNCHANGED <<poolVars, dispatchVars, p2pVars, allgatherVars, sparseVars, denseVars,
                   cudaVars, spmdVars, typedVars, waitVars, convVars>>

RecordInit ==
    /\ PoolInit
    /\ ncallers = 1
    /\ threads = 1
    /\ DispatchIdle
    /\ P2PIdle
    /\ AllgatherIdle
    /\ SparseIdle
    /\ DenseIdle
    /\ CudaIdle
    /\ SpmdIdle
    /\ TypedIdle
    /\ WaitIdle
    /\ ConvIdle
    /\ shTensor \in PositiveTensors
    /\ shWork = [pc |-> "zeros", data |-> ZeroRow]

RecordNext == RecordPopulate \/ RecordRead

RecordSpec == RecordInit /\ [][RecordNext]_vars

\* C38: for a sparse tensor of at most four sparse and four dense dimensions,
\* none of them empty, sizes() of the record that populate_from_sparse_tensor
\* filled on a row of zeros is the tensor's size list, the sparse sizes
\* followed by the dense sizes, and nnz() is the tensor's nnz.
C38_MetadataRoundTrip ==
    shWork.pc = "read" =>
        /\ shWork.sizes = shTensor.sizes
        /\ shWork.nnz = shTensor.nnz

\* C38, witness: a record read back for a tensor of two sparse and three
\* dense dimensions of different sizes and a nnz that is not zero.
C38_Witness ==
    /\ shWork.pc = "read"
    /\ shTensor.sparse_dim = 2
    /\ shTensor.sizes = <<3, 1, 1, 3, 1>>
    /\ shTensor.nnz = 1
    /\ shWork.data[2] = 0
    /\ shWork.data[4] = 1

\* ---------------------------------------------------------------------------
\* The buffers of the two max-nnz allgathers and what is taken from them.
\* ---------------------------------------------------------------------------

\* AsyncSparseAllreduceWork::allreduce on rank r up to the second
\* gloo::allgather of allgather_indices and allgather_values, when the sizes
\* match: the buffers are at::empty, each rank writes its entries at the
\* front of its row, and what follows them in a row holds what the memory
\* held, gi or gv.
GatherPadded(r, gi, gv) ==
    /\ spWork[r].status = "queued"
    /\ SizesMatch(r)
    /\ spTensors' = [spTensors EXCEPT ![r][1] = LocalSum(spTensors[r], Len(spTensors[r]))]
    /\ LET metadata == allgather_metadata
           max_nnz == MaxOfNnz(metadata)
       IN  spWork' = [spWork EXCEPT ![r] =
                         [status |-> "gathered", failed |-> FALSE, outputs |-> <<>>,
                          metadata |-> metadata,
                          ibuffer |-> [k \in Ranks |->
                                          PaddedRow(LocalInput(k).indices, max_nnz, gi)],
                          vbuffer |-> [k \in Ranks |->
                                          PaddedRow(LocalInput(k).values, max_nnz, gv)]]]
    /\ UNCHANGED <<poolVars, dispatchVars, p2pVars, allgatherVars, spSubmitted, denseVars,
                   cudaVars, spmdVars, typedVars, waitVars, shapeVars, convVars>>

\* The loops after the allgathers:
\* buffer.select(0, i).narrow(..., 0, metadata[i].nnz()) for every rank i.
TakeRows(r) ==
    /\ spWork[r].status = "gathered"
    /\ spWork' = [spWork EXCEPT ![r] =
                     [@ EXCEPT !.status = "taken",
                               !.outputs =
                                   [k \in Ranks |->
                                       [indices |-> Narrow(spWork[r].ibuffer[k],
                                                           MetadataNnz(spWork[r].metadata[k])),
                                        values |-> Narrow(spWork[r].vbuffer[k],
                                                          MetadataNnz(spWork[r].metadata[k]))]]]]
    /\ UNCHANGED <<poolVars, dispatchVars, p2pVars, allgatherVars, spSubmitted, spTensors,
                   denseVars, cudaVars, spmdVars, typedVars, waitVars, shapeVars, convVars>>

PaddingNext ==
    \E r \in Ranks :
        \/ \E gi \in Garbage, gv \in Garbage : GatherPadded(r, gi, gv)
        \/ TakeRows(r)

PaddingSpec == SparseInit /\ [][PaddingNext]_vars

\* C39: what a rank takes for rank k after the two allgathers has as many
\* entries as the nnz in rank k's metadata and is what rank k wrote into its
\* row, its coalesced local indices and values, whatever the rows hold behind
\* them and whatever the nnz of the ranks are.
C39_PaddingNotTaken ==
    \A r \in Ranks :
        spWork[r].status = "taken" =>
            \A k \in Ranks :
                /\ Len(spWork[r].outputs[k].indices) = spWork[r].metadata[k][MetadataDim - 1]
                /\ Len(spWork[r].outputs[k].values) = spWork[r].metadata[k][MetadataDim - 1]
                /\ spWork[r].outputs[k].indices = LocalInput(k).indices
                /\ spWork[r].outputs[k].values = LocalInput(k).values

\* C39, witness: a rank has taken the rows where one rank has nnz 0 and the
\* other nnz 2, so that its buffers hold two unwritten entries in a row.
C39_Witness ==
    \E r, k, l \in Ranks :
        /\ spWork[r].status = "taken"
        /\ Len(LocalInput(k).indices) = 0
        /\ Len(LocalInput(l).indices) = 2
        /\ Len(spWork[r].ibuffer[k]) = 2
        /\ spWork[r].ibuffer[k][1] = 5
        /\ spWork[r].outputs[k].indices = <<>>

\* ---------------------------------------------------------------------------
\* The quantized conv2d kernel: the shape of its output.
\* ---------------------------------------------------------------------------

\* The largest height and width of the activations of a call.
MaxExtent == 3

\* The largest height and width of the packed kernel.
MaxKernel == 3

\* The largest stride of a call.
MaxStride == 3

\* The largest padding of a call.
MaxPadding == 1

\* a / b on int64_t operands: the quotient is truncated towards zero.
idiv(a, b) == IF a >= 0 THEN a \div b ELSE 0 - ((0 - a) \div b)

\* convOutputShape: std::floor is given the value of an integer expression,
\* which it returns as it is.
convOutputShape(N, H, W, K, kernel, stride, padding, dilation) ==
    LET H_out == idiv(H + 2 * padding[1] - dilation[1] * (kernel[1] - 1) - 1, stride[1]) + 1
        W_out == idiv(W + 2 * padding[2] - dilation[2] * (kernel[2] - 1) - 1, stride[2]) + 1
    IN  <<N, H_out, W_out, K>>

\* The calls: activations of N x H x W x C, a packed weight of K output
\* channels and a kernel, stride and padding of two elements each, dilation 1.
ConvInputs ==
    [N : {1}, H : 1..MaxExtent, W : 1..MaxExtent, K : {1},
     kernel : [1..2 -> 1..MaxKernel], stride : [1..2 -> 1..MaxStride],
     padding : [1..2 -> 0..MaxPadding], dilation : {<<1, 1>>}]

\* QConv2dInt8::operator() up to the allocation of the output.
QConv2dInt8_call ==
    /\ qcCall.pc = "called"
    /\ LET in == qcInput
           outShape == convOutputShape(in.N, in.H, in.W, in.K, in.kernel, in.stride,
                                       in.padding, in.dilation)
       IN  qcCall' =
               IF in.dilation # <<1, 1>>
               THEN [pc |-> "returned", error |-> "Currently dilation should be 1",
                     outShape |-> <<>>]
               ELSE IF \E i \in 1..Len(outShape) : ~(outShape[i] > 0)
               THEN [pc |-> "returned",
                     error |-> "[QConv2D] each dimension of output tensor should be greater than 0",
                     outShape |-> <<>>]
               ELSE [pc |-> "returned", error |-> "none", outShape |-> outShape]
    /\ UNCHANGED qcInput
    /\ UNCHANGED <<poolVars, dispatchVars, p2pVars, allgatherVars, sparseVars, denseVars,
                   cudaVars, spmdVars, typedVars, waitVars, shapeVars>>

ConvInit ==
    /\ PoolInit
    /\ ncallers = 1
    /\ threads = 1
    /\ DispatchIdle
    /\ P2PIdle
    /\ AllgatherIdle
    /\ SparseIdle
    /\ DenseIdle
    /\ CudaIdle
    /\ SpmdIdle
    /\ TypedIdle
    /\ WaitIdle
    /\ ShapeIdle
    /\ qcInput \in ConvInputs
    /\ qcCall = [pc |-> "called", error |-> "none", outShape |-> <<>>]

ConvNext == QConv2dInt8_call

ConvSpec == ConvInit /\ [][ConvNext]_vars

\* The padded height or the padded width of the activations is smaller than
\* the kernel.
KernelDoesNotFit ==
    \/ qcInput.H + 2 * qcInput.padding[1] < qcInput.kernel[1]
    \/ qcInput.W + 2 * qcInput.padding[2] < qcInput.kernel[2]

\* C40, as claimed: with dilation 1, stride >= 1, padding >= 0 and a kernel
\* >= 1, a call whose padded input is smaller than the kernel in height or in
\* width is rejected by the check that every output dimension is greater
\* than 0.
C40_KernelLargerThanInputRejected_AsClaimed ==
    (qcCall.pc = "returned" /\ KernelDoesNotFit) => qcCall.error # "none"

====
